---- MODULE Spec2Model ----
(***************************************************************************)
(* Model of sportsreference's MLB and NCAAF boxscore modules:              *)
(*   - Boxscore   : fetch a game page, parse every raw attribute, expose   *)
(*                  typed accessors and the dataframe record;              *)
(*   - Boxscores  : fetch a day's index page and list its games;           *)
(*   - the narrative (date/location) parsers of both sports.               *)
(*                                                                         *)
(* Python text is modelled as a sequence of tokens (each token a short     *)
(* piece of text such as "1", "-", "Start Time: "); str.replace,           *)
(* str.split, str.lower, the `in` operator and int()/float() are computed  *)
(* on these sequences the way CPython computes them on characters.         *)
(***************************************************************************)
EXTENDS Integers, Sequences, FiniteSets, TLC

(***************************************************************************)
(* Bounds of the model.                                                    *)
(***************************************************************************)
MaxScore == 2
MaxParts == 6
MaxValue == 30

(***************************************************************************)
(* Python values.                                                          *)
(***************************************************************************)
None == [t |-> "none", v |-> <<>>]
PyStr(s) == [t |-> "str", v |-> s]
PyInt(n) == [t |-> "int", v |-> n]
PyFloat(n) == [t |-> "float", v |-> n]
PyBool(b) == [t |-> "bool", v |-> b]
PyTag(text, html) == [t |-> "tag", v |-> <<text, html>>]
Raise(e) == [t |-> "exc", v |-> e]

IsNone(x) == x.t = "none"
IsExc(x) == x.t = "exc"
IsStr(x) == x.t = "str"

HOME == PyStr(<<"Home">>)
AWAY == PyStr(<<"Away">>)
DAY == PyStr(<<"Day">>)
NIGHT == PyStr(<<"Night">>)

(***************************************************************************)
(* Text primitives.                                                        *)
(***************************************************************************)
Digits == {"0", "1", "2", "3", "4", "5", "6", "7", "8", "9"}

DigitVal(c) ==
    CASE c = "0" -> 0 [] c = "1" -> 1 [] c = "2" -> 2 [] c = "3" -> 3
      [] c = "4" -> 4 [] c = "5" -> 5 [] c = "6" -> 6 [] c = "7" -> 7
      [] c = "8" -> 8 [] c = "9" -> 9

DigitChar(d) ==
    CASE d = 0 -> "0" [] d = 1 -> "1" [] d = 2 -> "2" [] d = 3 -> "3"
      [] d = 4 -> "4" [] d = 5 -> "5" [] d = 6 -> "6" [] d = 7 -> "7"
      [] d = 8 -> "8" [] d = 9 -> "9"

\* The decimal text of a natural number (what the page shows for n).
RECURSIVE NumStr(_)
NumStr(n) ==
    IF n < 10 THEN <<DigitChar(n)>>
    ELSE NumStr(n \div 10) \o <<DigitChar(n % 10)>>

\* Lower-case form of one token (str.lower on its characters).
LowerTok(c) ==
    CASE c = "First Game of Doubleheader" -> "first game of doubleheader"
      [] c = "Second Game of Doubleheader" -> "second game of doubleheader"
      [] c = "SECOND GAME OF DOUBLEHEADER" -> "second game of doubleheader"
      [] c = "Night" -> "night"
      [] c = "NIGHT" -> "night"
      [] c = "Day" -> "day"
      [] c = " Game" -> " game"
      [] c = " GAME" -> " game"
      [] c = "Start Time: " -> "start time: "
      [] c = "Attendance: " -> "attendance: "
      [] c = "Venue: " -> "venue: "
      [] c = "Game Duration: " -> "game duration: "
      [] c = "Stadium: " -> "stadium: "
      [] c = "Thursday" -> "thursday"
      [] c = "Saturday" -> "saturday"
      [] c = "SATURDAY" -> "saturday"
      [] c = "Rose Bowl" -> "rose bowl"
      [] c = "Sports Logos.net" -> "sports logos.net"
      [] OTHER -> c

\* str.lower()
Lower(s) == [i \in 1..Len(s) |-> LowerTok(s[i])]

\* `pat in s` for str operands: pat occurs as a contiguous piece of s.
Contains(s, pat) ==
    \E i \in 0..(Len(s) - Len(pat)) :
        \A j \in 1..Len(pat) : s[i + j] = pat[j]

\* str.replace(old, new): every non-overlapping occurrence of old, found
\* scanning from the left, is replaced by new.
RECURSIVE Replace(_, _, _)
Replace(s, old, new) ==
    IF Len(s) < Len(old) THEN s
    ELSE IF SubSeq(s, 1, Len(old)) = old
         THEN new \o Replace(SubSeq(s, Len(old) + 1, Len(s)), old, new)
         ELSE <<Head(s)>> \o Replace(Tail(s), old, new)

\* str.split(sep) for a one-token separator: always at least one part.
RECURSIVE Split(_, _)
Split(s, sep) ==
    IF \A i \in 1..Len(s) : s[i] # sep THEN <<s>>
    ELSE LET i == CHOOSE k \in 1..Len(s) :
                      /\ s[k] = sep
                      /\ \A m \in 1..(k - 1) : s[m] # sep
         IN  <<SubSeq(s, 1, i - 1)>> \o Split(SubSeq(s, i + 1, Len(s)), sep)

\* The value of a run of decimal digits.
RECURSIVE DigitsVal(_)
DigitsVal(s) ==
    IF Len(s) = 0 THEN 0
    ELSE 10 * DigitsVal(SubSeq(s, 1, Len(s) - 1)) + DigitVal(s[Len(s)])

AllDigits(s) == Len(s) > 0 /\ \A i \in 1..Len(s) : s[i] \in Digits

\* int(x): an int is returned as is, None is a TypeError, a str must be an
\* optionally signed run of digits or it is a ValueError.
ToInt(x) ==
    CASE x.t = "int" -> x
      [] x.t = "str" ->
            IF AllDigits(x.v) THEN PyInt(DigitsVal(x.v))
            ELSE IF Len(x.v) > 1 /\ x.v[1] = "-" /\ AllDigits(Tail(x.v))
                 THEN PyInt(0 - DigitsVal(Tail(x.v)))
                 ELSE Raise("ValueError")
      [] OTHER -> Raise("TypeError")

\* float(x), in tenths: digits with at most one fractional digit.
ToFloat(x) ==
    CASE x.t = "int" -> PyFloat(10 * x.v)
      [] x.t = "str" ->
            IF AllDigits(x.v) THEN PyFloat(10 * DigitsVal(x.v))
            ELSE IF /\ Len(x.v) >= 2
                    /\ x.v[Len(x.v) - 1] = "."
                    /\ x.v[Len(x.v)] \in Digits
                    /\ \A i \in 1..(Len(x.v) - 2) : x.v[i] \in Digits
                 THEN PyFloat(10 * DigitsVal(SubSeq(x.v, 1, Len(x.v) - 2))
                              + DigitVal(x.v[Len(x.v)]))
                 ELSE Raise("ValueError")
      [] OTHER -> Raise("TypeError")

\* x.replace(old, '') as a method call: only a str has the method.
StrReplace(x, old) ==
    IF IsStr(x) THEN PyStr(Replace(x.v, old, <<>>))
    ELSE Raise("AttributeError")

(***************************************************************************)
(* The attributes and accessors of the two Boxscore classes.               *)
(***************************************************************************)
\* Attributes in the order __init__ creates them (without the leading '_'):
\* the order in which _parse_game_data walks self.__dict__.
NcaafFieldOrder ==
    << "uri", "date", "time", "stadium", "away_name", "home_name", "winner",
       "winning_name", "winning_abbr", "losing_name", "losing_abbr",
       "away_points", "away_first_downs", "away_rush_attempts",
       "away_rush_yards", "away_rush_touchdowns", "away_pass_completions",
       "away_pass_attempts", "away_pass_yards", "away_pass_touchdowns",
       "away_interceptions", "away_total_yards", "away_fumbles",
       "away_fumbles_lost", "away_turnovers", "away_penalties",
       "away_yards_from_penalties", "home_points", "home_first_downs",
       "home_rush_attempts", "home_rush_yards", "home_rush_touchdowns",
       "home_pass_completions", "home_pass_attempts", "home_pass_yards",
       "home_pass_touchdowns", "home_interceptions", "home_total_yards",
       "home_fumbles", "home_fumbles_lost", "home_turnovers", "home_penalties",
       "home_yards_from_penalties" >>

NcaafIntAcc ==
    { "away_points", "away_first_downs", "away_total_yards", "away_turnovers",
       "home_points", "home_first_downs", "home_total_yards", "home_turnovers" }

NcaafDataframeKeys ==
    << "away_first_downs", "away_fumbles", "away_fumbles_lost",
       "away_interceptions", "away_pass_attempts", "away_pass_completions",
       "away_pass_touchdowns", "away_pass_yards", "away_penalties",
       "away_points", "away_rush_attempts", "away_rush_touchdowns",
       "away_rush_yards", "away_total_yards", "away_turnovers",
       "away_yards_from_penalties", "date", "home_first_downs", "home_fumbles",
       "home_fumbles_lost", "home_interceptions", "home_pass_attempts",
       "home_pass_completions", "home_pass_touchdowns", "home_pass_yards",
       "home_penalties", "home_points", "home_rush_attempts",
       "home_rush_touchdowns", "home_rush_yards", "home_total_yards",
       "home_turnovers", "home_yards_from_penalties", "losing_abbr",
       "losing_name", "stadium", "time", "winner", "winning_abbr",
       "winning_name" >>

MlbFieldOrder ==
    << "uri", "date", "time", "attendance", "venue", "time_of_day", "duration",
       "away_name", "home_name", "winner", "winning_name", "winning_abbr",
       "losing_name", "losing_abbr", "away_at_bats", "away_runs", "away_hits",
       "away_rbi", "away_earned_runs", "away_bases_on_balls",
       "away_strikeouts", "away_plate_appearances", "away_batting_average",
       "away_on_base_percentage", "away_slugging_percentage",
       "away_on_base_plus", "away_pitches", "away_strikes",
       "away_win_probability_for_offensive_player",
       "away_average_leverage_index", "away_win_probability_added",
       "away_win_probability_subtracted", "away_base_out_runs_added",
       "away_putouts", "away_assists", "away_innings_pitched",
       "away_home_runs", "away_strikes_by_contact", "away_strikes_swinging",
       "away_strikes_looking", "away_grounded_balls", "away_fly_balls",
       "away_line_drives", "away_unknown_bat_type", "away_game_score",
       "away_inherited_runners", "away_inherited_score",
       "away_win_probability_by_pitcher", "away_base_out_runs_saved",
       "home_at_bats", "home_runs", "home_hits", "home_rbi",
       "home_earned_runs", "home_bases_on_balls", "home_strikeouts",
       "home_plate_appearances", "home_batting_average",
       "home_on_base_percentage", "home_slugging_percentage",
       "home_on_base_plus", "home_pitches", "home_strikes",
       "home_win_probability_for_offensive_player",
       "home_average_leverage_index", "home_win_probability_added",
       "home_win_probability_subtracted", "home_base_out_runs_added",
       "home_putouts", "home_assists", "home_innings_pitched",
       "home_home_runs", "home_strikes_by_contact", "home_strikes_swinging",
       "home_strikes_looking", "home_grounded_balls", "home_fly_balls",
       "home_line_drives", "home_unknown_bat_type", "home_game_score",
       "home_inherited_runners", "home_inherited_score",
       "home_win_probability_by_pitcher", "home_base_out_runs_saved" >>

MlbIntAcc ==
    { "away_at_bats", "away_runs", "away_hits", "away_rbi",
       "away_bases_on_balls", "away_strikeouts", "away_plate_appearances",
       "away_pitches", "away_strikes", "away_putouts", "away_assists",
       "away_home_runs", "away_strikes_by_contact", "away_strikes_swinging",
       "away_strikes_looking", "away_grounded_balls", "away_fly_balls",
       "away_line_drives", "away_unknown_bat_type", "away_game_score",
       "home_at_bats", "home_runs", "home_hits", "home_rbi",
       "home_bases_on_balls", "home_strikeouts", "home_plate_appearances",
       "home_pitches", "home_strikes", "home_putouts", "home_assists",
       "home_home_runs", "home_strikes_by_contact", "home_strikes_swinging",
       "home_strikes_looking", "home_grounded_balls", "home_fly_balls",
       "home_line_drives", "home_unknown_bat_type", "home_game_score" }

MlbFloatAcc ==
    { "away_earned_runs", "away_batting_average", "away_on_base_percentage",
       "away_slugging_percentage", "away_on_base_plus",
       "away_win_probability_for_offensive_player",
       "away_average_leverage_index", "away_win_probability_added",
       "away_win_probability_subtracted", "away_base_out_runs_added",
       "away_innings_pitched", "away_win_probability_by_pitcher",
       "away_base_out_runs_saved", "home_earned_runs", "home_batting_average",
       "home_on_base_percentage", "home_slugging_percentage",
       "home_on_base_plus", "home_win_probability_for_offensive_player",
       "home_average_leverage_index", "home_win_probability_added",
       "home_win_probability_subtracted", "home_base_out_runs_added",
       "home_innings_pitched", "home_win_probability_by_pitcher",
       "home_base_out_runs_saved" }

MlbTryIntAcc ==
    { "away_inherited_runners", "away_inherited_score",
       "home_inherited_runners", "home_inherited_score" }

MlbDataframeKeys ==
    << "date", "time", "venue", "attendance", "duration", "time_of_day",
       "winner", "winning_name", "winning_abbr", "losing_name", "losing_abbr",
       "away_at_bats", "away_runs", "away_hits", "away_rbi",
       "away_earned_runs", "away_bases_on_balls", "away_strikeouts",
       "away_plate_appearances", "away_batting_average",
       "away_on_base_percentage", "away_slugging_percentage",
       "away_on_base_plus", "away_pitches", "away_strikes",
       "away_win_probability_for_offensive_player",
       "away_average_leverage_index", "away_win_probability_added",
       "away_win_probability_subtracted", "away_base_out_runs_added",
       "away_putouts", "away_assists", "away_innings_pitched",
       "away_home_runs", "away_strikes_by_contact", "away_strikes_swinging",
       "away_strikes_looking", "away_grounded_balls", "away_fly_balls",
       "away_line_drives", "away_unknown_bat_type", "away_game_score",
       "away_inherited_runners", "away_inherited_score",
       "away_win_probability_by_pitcher", "away_base_out_runs_saved",
       "home_at_bats", "home_runs", "home_hits", "home_rbi",
       "home_earned_runs", "home_bases_on_balls", "home_strikeouts",
       "home_plate_appearances", "home_batting_average",
       "home_on_base_percentage", "home_slugging_percentage",
       "home_on_base_plus", "home_pitches", "home_strikes",
       "home_win_probability_for_offensive_player",
       "home_average_leverage_index", "home_win_probability_added",
       "home_win_probability_subtracted", "home_base_out_runs_added",
       "home_putouts", "home_assists", "home_innings_pitched",
       "home_home_runs", "home_strikes_by_contact", "home_strikes_swinging",
       "home_strikes_looking", "home_grounded_balls", "home_fly_balls",
       "home_line_drives", "home_unknown_bat_type", "home_game_score",
       "home_inherited_runners", "home_inherited_score",
       "home_win_probability_by_pitcher", "home_base_out_runs_saved" >>

\* The properties of each Boxscore class, in the order the class defines
\* them.
NcaafProperties ==
    << "dataframe", "date", "time", "stadium", "winner", "winning_name",
       "winning_abbr", "losing_name", "losing_abbr", "away_points",
       "away_first_downs", "away_rush_attempts", "away_rush_yards",
       "away_rush_touchdowns", "away_pass_completions", "away_pass_attempts",
       "away_pass_yards", "away_pass_touchdowns", "away_interceptions",
       "away_total_yards", "away_fumbles", "away_fumbles_lost",
       "away_turnovers", "away_penalties", "away_yards_from_penalties",
       "home_points", "home_first_downs", "home_rush_attempts",
       "home_rush_yards", "home_rush_touchdowns", "home_pass_completions",
       "home_pass_attempts", "home_pass_yards", "home_pass_touchdowns",
       "home_interceptions", "home_total_yards", "home_fumbles",
       "home_fumbles_lost", "home_turnovers", "home_penalties",
       "home_yards_from_penalties" >>

MlbProperties ==
    << "dataframe", "date", "time", "venue", "attendance", "duration",
       "time_of_day", "winner", "winning_name", "winning_abbr", "losing_name",
       "losing_abbr", "away_at_bats", "away_runs", "away_hits", "away_rbi",
       "away_earned_runs", "away_bases_on_balls", "away_strikeouts",
       "away_plate_appearances", "away_batting_average",
       "away_on_base_percentage", "away_slugging_percentage",
       "away_on_base_plus", "away_pitches", "away_strikes",
       "away_win_probability_for_offensive_player",
       "away_average_leverage_index", "away_win_probability_added",
       "away_win_probability_subtracted", "away_base_out_runs_added",
       "away_putouts", "away_assists", "away_innings_pitched",
       "away_home_runs", "away_strikes_by_contact", "away_strikes_swinging",
       "away_strikes_looking", "away_grounded_balls", "away_fly_balls",
       "away_line_drives", "away_unknown_bat_type", "away_game_score",
       "away_inherited_runners", "away_inherited_score",
       "away_win_probability_by_pitcher", "away_base_out_runs_saved",
       "home_at_bats", "home_runs", "home_hits", "home_rbi",
       "home_earned_runs", "home_bases_on_balls", "home_strikeouts",
       "home_plate_appearances", "home_batting_average",
       "home_on_base_percentage", "home_slugging_percentage",
       "home_on_base_plus", "home_pitches", "home_strikes",
       "home_win_probability_for_offensive_player",
       "home_average_leverage_index", "home_win_probability_added",
       "home_win_probability_subtracted", "home_base_out_runs_added",
       "home_putouts", "home_assists", "home_innings_pitched",
       "home_home_runs", "home_strikes_by_contact", "home_strikes_swinging",
       "home_strikes_looking", "home_grounded_balls", "home_fly_balls",
       "home_line_drives", "home_unknown_bat_type", "home_game_score",
       "home_inherited_runners", "home_inherited_score",
       "home_win_probability_by_pitcher", "home_base_out_runs_saved" >>

\* The names of the properties of a Boxscore.
Properties(sp) ==
    IF sp = "mlb" THEN {MlbProperties[i] : i \in 1..Len(MlbProperties)}
    ELSE {NcaafProperties[i] : i \in 1..Len(NcaafProperties)}

\* The NCAAF accessors that split a 'a-b-c' composite string.
NcaafCompAcc ==
    { "away_rush_attempts", "away_rush_yards", "away_rush_touchdowns",
      "away_pass_completions", "away_pass_attempts", "away_pass_yards",
      "away_pass_touchdowns", "away_interceptions", "away_fumbles",
      "away_fumbles_lost", "away_penalties", "away_yards_from_penalties",
      "home_rush_attempts", "home_rush_yards", "home_rush_touchdowns",
      "home_pass_completions", "home_pass_attempts", "home_pass_yards",
      "home_pass_touchdowns", "home_interceptions", "home_fumbles",
      "home_fumbles_lost", "home_penalties", "home_yards_from_penalties" }

\* The raw attribute each composite accessor reads.
CompSource(acc) ==
    CASE acc = "away_fumbles_lost" -> "away_fumbles"
      [] acc = "home_interceptions" -> "home_pass_touchdowns"
      [] OTHER -> acc

\* A variant of CompPos that reads every field one position early.
CompPosOffByOne(acc) ==
    IF acc \in {"away_interceptions", "home_interceptions"} THEN 3
    ELSE IF acc \in {"away_pass_touchdowns", "home_pass_touchdowns",
                     "away_rush_touchdowns", "home_rush_touchdowns",
                     "away_pass_yards", "home_pass_yards"} THEN 1
    ELSE 0

\* The position each composite accessor takes from the split string.
CompPos(acc) ==
    CASE acc \in {"away_rush_attempts", "home_rush_attempts",
                  "away_pass_completions", "home_pass_completions",
                  "away_fumbles", "home_fumbles",
                  "away_penalties", "home_penalties"} -> 0
      [] acc \in {"away_rush_yards", "home_rush_yards",
                  "away_pass_attempts", "home_pass_attempts",
                  "away_fumbles_lost", "home_fumbles_lost",
                  "away_yards_from_penalties",
                  "home_yards_from_penalties"} -> 1
      [] acc \in {"away_rush_touchdowns", "home_rush_touchdowns",
                  "away_pass_yards", "home_pass_yards"} -> 2
      [] acc \in {"away_pass_touchdowns", "home_pass_touchdowns"} -> 3
      [] acc \in {"away_interceptions", "home_interceptions"} -> 4

Sports == {"mlb", "ncaaf"}

FieldOrder(sp) == IF sp = "mlb" THEN MlbFieldOrder ELSE NcaafFieldOrder
Fields(sp) == {FieldOrder(sp)[i] : i \in 1..Len(FieldOrder(sp))}
DataframeKeys(sp) == IF sp = "mlb" THEN MlbDataframeKeys ELSE NcaafDataframeKeys
Accessors(sp) == {DataframeKeys(sp)[i] : i \in 1..Len(DataframeKeys(sp))}

\* The two raw final-score attributes of a sport.
AwayScoreField(sp) == IF sp = "mlb" THEN "away_runs" ELSE "away_points"
HomeScoreField(sp) == IF sp = "mlb" THEN "home_runs" ELSE "home_points"

\* The attributes handled by _parse_game_date_and_location.
NarrativeFields(sp) ==
    IF sp = "mlb"
    THEN {"date", "time", "venue", "attendance", "time_of_day", "duration"}
    ELSE {"date", "time", "stadium"}

\* The attributes _parse_game_data never assigns.
SkippedFields ==
    {"winner", "winning_name", "winning_abbr", "losing_name", "losing_abbr",
     "uri"}

(***************************************************************************)
(* Tables of the constants modules (BOXSCORE_ELEMENT_INDEX,                *)
(* DOUBLE_HEADER_INDICES) and the helpers of utils, which the boxscore     *)
(* modules import.                                                         *)
(***************************************************************************)
\* BOXSCORE_ELEMENT_INDEX: the line of the narrative block holding a field.
ElementIndex(sp) ==
    IF sp = "mlb"
    THEN [f \in {"date", "time", "attendance", "venue", "duration",
                 "time_of_day"} |->
            CASE f = "date" -> 0 [] f = "time" -> 1 [] f = "attendance" -> 2
              [] f = "venue" -> 3 [] f = "duration" -> 4
              [] f = "time_of_day" -> 5]
    ELSE [f \in {"date", "time", "stadium"} |->
            CASE f = "date" -> 0 [] f = "time" -> 1 [] f = "stadium" -> 2]

\* DOUBLE_HEADER_INDICES: the marker that identifies a field's line.
DoubleHeaderIndices ==
    [f \in {"time", "attendance", "venue", "duration"} |->
        CASE f = "time" -> <<"start time: ">>
          [] f = "attendance" -> <<"attendance: ">>
          [] f = "venue" -> <<"venue: ">>
          [] f = "duration" -> <<"game duration: ">>]

\* The texts of the elements BOXSCORE_SCHEME[field] selects in a page.
Matches(sp, page, field) ==
    CASE field = AwayScoreField(sp) -> page.away_score
      [] field = HomeScoreField(sp) -> page.home_score
      [] sp = "ncaaf" /\ field \in NcaafCompAcc -> page.comp
      [] OTHER -> page.stat

\* utils._parse_field: the text of the index-th selected element, or None
\* when the selector yields fewer elements; it never raises.
ParseField(sp, page, field, index) ==
    LET m == Matches(sp, page, field)
    IN  IF index < Len(m) THEN PyStr(m[index + 1]) ELSE None

\* utils._parse_abbreviation: the code that follows the school or team
\* path segment of the tag's link.
UtilsParseAbbreviation(tag) ==
    IF tag.t # "tag" THEN Raise("AttributeError")
    ELSE LET h == tag.v[2]
             at == {i \in 1..(Len(h) - 3) :
                        /\ h[i] = "/"
                        /\ h[i + 1] \in {"schools", "teams"}
                        /\ h[i + 2] = "/"}
         IN  IF at = {} THEN PyStr(<<>>)
             ELSE LET i == CHOOSE k \in at : \A m \in at : k >= m
                  IN  PyStr(<<h[i + 3]>>)

(***************************************************************************)
(* Boxscore._retrieve_html_page                                            *)
(***************************************************************************)
\* A fetched document.
PyPage(page) == [t |-> "page", v |-> page]

\* pq(url) inside try/except: None when the fetch raises, else the document.
RetrieveHtmlPage(n) ==
    IF n.ok THEN PyPage(n.page) ELSE None

(***************************************************************************)
(* Boxscore._parse_game_date_and_location                                  *)
(***************************************************************************)
Weekdays ==
    <<"monday", "tuesday", "wednesday", "thursday", "friday", "saturday",
      "sunday">>

\* The line at index returned as it is, watermark or empty.
NcaafLineUnfiltered(game_info, index) ==
    IF index >= Len(game_info) THEN PyStr(<<>>)
    ELSE PyStr(game_info[index + 1])

\* The line at index taken without the test against len(game_info): an
\* index past the end raises.
NcaafLineUnchecked(game_info, index) ==
    IF index >= Len(game_info) THEN Raise("IndexError")
    ELSE IF \/ Contains(Lower(game_info[index + 1]),
                        <<"sports logos.net">>)
            \/ game_info[index + 1] = <<>>
         THEN PyStr(<<>>)
         ELSE PyStr(game_info[index + 1])

\* ncaaf: the line at index, '' when it is out of range, empty or the
\* image-credit watermark.
NcaafLine(game_info, index) ==
    IF index >= Len(game_info) THEN PyStr(<<>>)
    ELSE IF \/ Contains(Lower(game_info[index + 1]),
                        <<"sports logos.net">>)
            \/ game_info[index + 1] = <<>>
         THEN PyStr(<<>>)
         ELSE PyStr(game_info[index + 1])

\* The ncaaf parser reading at index whatever the first line is.
NcaafParseAtNoShift(field, items, index) ==
    IF Len(items) = 0 THEN Raise("IndexError")
    ELSE NcaafLine(Split(items[1], "\n"), index)

\* ncaaf, with index the value of BOXSCORE_ELEMENT_INDEX[field].
NcaafParseAt(field, items, index) ==
    IF Len(items) = 0 THEN Raise("IndexError")
    ELSE IF \E d \in 1..Len(Weekdays) :
               Contains(Lower(Split(items[1], "\n")[1]), <<Weekdays[d]>>)
         THEN NcaafLine(Split(items[1], "\n"), index)
         ELSE NcaafLine(Split(items[1], "\n"), index + 1)

NcaafParseGameDateAndLocation(field, items) ==
    NcaafParseAt(field, items, ElementIndex("ncaaf")[field])

IsDoubleHeaderText(item) ==
    \/ Contains(Lower(item), <<"first game of doubleheader">>)
    \/ Contains(Lower(item), <<"second game of doubleheader">>)

\* The inner loop taking the line at the field's fixed index instead of
\* looking for the field's marker.
MlbScanElementsAtIndex(field, game_info, k) ==
    IF ElementIndex("mlb")[field] < Len(game_info)
    THEN PyStr(game_info[ElementIndex("mlb")[field] + 1])
    ELSE None

\* mlb: the inner `for element in game_info` loop from element k on;
\* None stands for the loop ending without a return.
RECURSIVE MlbScanElements(_, _, _)
MlbScanElements(field, game_info, k) ==
    IF k > Len(game_info) THEN None
    ELSE IF field = "time_of_day"
         THEN IF \/ Contains(Lower(game_info[k]), <<"night", " game">>)
                 \/ Contains(Lower(game_info[k]), <<"day", " game">>)
              THEN PyStr(game_info[k])
              ELSE MlbScanElements(field, game_info, k + 1)
         ELSE IF Contains(Lower(game_info[k]), DoubleHeaderIndices[field])
              THEN PyStr(game_info[k])
              ELSE MlbScanElements(field, game_info, k + 1)

\* The mlb parser without its doubleheader branch: always the line at index.
MlbScanItemsAtIndex(field, items, k, game_info, double_header, index) ==
    IF index < Len(game_info) THEN PyStr(game_info[index + 1])
    ELSE Raise("IndexError")

\* mlb, when the scan of the elements of game_info gave r for a
\* doubleheader item: a found element is returned, else the next item.
RECURSIVE MlbScanItems(_, _, _, _, _, _)
MlbAfterElements(r, field, items, k, game_info, index) ==
    IF IsNone(r) THEN MlbScanItems(field, items, k + 1, game_info, TRUE, index)
    ELSE r

\* mlb: the outer `for item in items` loop from item k on, and the code
\* after it; index is the value of BOXSCORE_ELEMENT_INDEX[field].
MlbScanItems(field, items, k, game_info, double_header, index) ==
    IF k > Len(items)
    THEN IF double_header THEN PyStr(<<>>)
         ELSE IF index < Len(game_info) THEN PyStr(game_info[index + 1])
         ELSE Raise("IndexError")
    ELSE IF IsDoubleHeaderText(items[k])
         THEN IF field = "date" THEN PyStr(game_info[1])
              ELSE MlbAfterElements(MlbScanElements(field, game_info, 1),
                                    field, items, k, game_info, index)
         ELSE MlbScanItems(field, items, k + 1, game_info, double_header,
                           index)

MlbParseAt(field, items, index) ==
    IF Len(items) = 0 THEN Raise("IndexError")
    ELSE MlbScanItems(field, items, 1, Split(items[1], "\n"), FALSE, index)

MlbParseGameDateAndLocation(field, items) ==
    MlbParseAt(field, items, ElementIndex("mlb")[field])

\* _parse_game_date_and_location of either module for a given index.
ParseAt(sp, field, items, index) ==
    IF sp = "mlb" THEN MlbParseAt(field, items, index)
    ELSE NcaafParseAt(field, items, index)

ParseGameDateAndLocation(sp, field, items) ==
    IF sp = "mlb" THEN MlbParseGameDateAndLocation(field, items)
    ELSE NcaafParseGameDateAndLocation(field, items)

\* Boxscore._parse_name: the selected name tag itself.
ParseName(field, page) ==
    IF field = "away_name" THEN page.away_name ELSE page.home_name

(***************************************************************************)
(* Boxscore.__init__ and Boxscore._parse_game_data                         *)
(***************************************************************************)
\* The attributes right after the assignments of __init__.
InitialAttributes(sp, u) ==
    [f \in Fields(sp) |-> IF f = "uri" THEN u ELSE None]

\* The fields _parse_game_data hands to utils._parse_field.
GenericFields(sp) ==
    (Fields(sp) \ SkippedFields) \ (NarrativeFields(sp)
                                      \cup {"away_name", "home_name"})

\* The index of a field that ignores the table.
IndexForAlwaysZero(table, field) == 0

\* `index = 0`, replaced by the entry of the field when
\* BOXSCORE_ELEMENT_INDEX (table) has one.
IndexFor(table, field) ==
    IF field \in DOMAIN table THEN table[field] ELSE 0

\* The last statements of the loop body for a field parsed through
\* utils._parse_field, with table the value of BOXSCORE_ELEMENT_INDEX.
GenericValue(sp, page, field, table) ==
    ParseField(sp, page, field, IndexFor(table, field))

\* The value _parse_game_data computes for one attribute.
ParseValue(sp, page, field) ==
    IF field \in NarrativeFields(sp)
    THEN ParseGameDateAndLocation(sp, field, page.narr)
    ELSE IF field \in {"away_name", "home_name"}
         THEN ParseName(field, page)
         ELSE GenericValue(sp, page, field, ElementIndex(sp))

\* The least element of a non-empty set of numbers.
Least(S) == CHOOSE k \in S : \A m \in S : k <= m

\* The position of attribute f in the attribute order.
Position(sp, f) == CHOOSE k \in 1..Len(FieldOrder(sp)) : FieldOrder(sp)[k] = f

\* The positions of the attributes whose parsing raises.
RaisingFields(sp, page) ==
    {k \in 1..Len(FieldOrder(sp)) :
        /\ FieldOrder(sp)[k] \notin SkippedFields
        /\ IsExc(ParseValue(sp, page, FieldOrder(sp)[k]))}

\* The loop without the `continue` for the attributes it must leave
\* alone: every attribute goes on to a parser.
ParseLoopUntilWithoutSkip(sp, page, attrs, failing) ==
    [attrs |->
        [f \in Fields(sp) |->
            IF \A k \in failing : Position(sp, f) < k
            THEN ParseValue(sp, page, f)
            ELSE attrs[f]],
     exc |-> IF failing = {} THEN None
             ELSE ParseValue(sp, page, FieldOrder(sp)[Least(failing)])]

\* The loop `for field in self.__dict__` when the attributes at the
\* positions in failing raise: the attributes are parsed in order and the
\* first exception ends the loop (and the constructor) with the attributes
\* assigned before it.
ParseLoopUntil(sp, page, attrs, failing) ==
    [attrs |->
        [f \in Fields(sp) |->
            IF /\ f \notin SkippedFields
               /\ \A k \in failing : Position(sp, f) < k
            THEN ParseValue(sp, page, f)
            ELSE attrs[f]],
     exc |-> IF failing = {} THEN None
             ELSE ParseValue(sp, page, FieldOrder(sp)[Least(failing)])]

ParseLoop(sp, page, attrs) ==
    ParseLoopUntil(sp, page, attrs, RaisingFields(sp, page))

\* A variant of ParseGameData without the `if not boxscore: return` guard:
\* querying None raises.
ParseGameDataUnguarded(sp, attrs, boxscore) ==
    IF IsNone(boxscore) THEN [attrs |-> attrs, exc |-> Raise("TypeError")]
    ELSE ParseLoop(sp, boxscore.v, attrs)

\* _parse_game_data given what _retrieve_html_page returned.
ParseGameData(sp, attrs, boxscore) ==
    IF IsNone(boxscore) THEN [attrs |-> attrs, exc |-> None]
    ELSE ParseLoop(sp, boxscore.v, attrs)

(***************************************************************************)
(* The typed accessors (properties) of Boxscore.                           *)
(***************************************************************************)
\* away_runs / away_points and home_runs / home_points: int(raw).
AwayScore(sp, attrs) == ToInt(attrs[AwayScoreField(sp)])
HomeScore(sp, attrs) == ToInt(attrs[HomeScoreField(sp)])

\* A variant of WinnerOf that gives a tie to the home team.
WinnerOfTieHome(h, a) ==
    IF IsExc(h) THEN h
    ELSE IF IsExc(a) THEN a
    ELSE IF h.v >= a.v THEN HOME ELSE AWAY

\* winner: HOME when the home score is greater, AWAY otherwise; h and a
\* are the values of the home and away score accessors, read in that order.
WinnerOf(h, a) ==
    IF IsExc(h) THEN h
    ELSE IF IsExc(a) THEN a
    ELSE IF h.v > a.v THEN HOME ELSE AWAY

Winner(sp, attrs) == WinnerOf(HomeScore(sp, attrs), AwayScore(sp, attrs))

\* tag.text()
TagText(tag) ==
    IF tag.t = "tag" THEN PyStr(tag.v[1]) ELSE Raise("AttributeError")

\* str(tag)
TagStr(tag) ==
    IF tag.t = "tag" THEN tag.v[2] ELSE <<"None">>

\* The abbreviation of one name tag: ncaaf falls back to the display text
\* when the tag has no 'cfb/schools' link.
TagAbbr(sp, tag) ==
    IF sp = "ncaaf" /\ ~Contains(TagStr(tag), <<"cfb", "/", "schools">>)
    THEN TagText(tag)
    ELSE UtilsParseAbbreviation(tag)

\* The two branches of `if self.winner == HOME` exchanged.
IfHomeReversed(w, home, away) ==
    IF IsExc(w) THEN w ELSE IF w = HOME THEN away ELSE home

\* `if self.winner == HOME: <home> else <away>` for winner value w.
IfHome(w, home, away) ==
    IF IsExc(w) THEN w ELSE IF w = HOME THEN home ELSE away

WinningName(sp, attrs) ==
    IfHome(Winner(sp, attrs),
           TagText(attrs["home_name"]), TagText(attrs["away_name"]))

WinningAbbr(sp, attrs) ==
    IfHome(Winner(sp, attrs),
           TagAbbr(sp, attrs["home_name"]), TagAbbr(sp, attrs["away_name"]))

LosingName(sp, attrs) ==
    IfHome(Winner(sp, attrs),
           TagText(attrs["away_name"]), TagText(attrs["home_name"]))

LosingAbbr(sp, attrs) ==
    IfHome(Winner(sp, attrs),
           TagAbbr(sp, attrs["away_name"]), TagAbbr(sp, attrs["home_name"]))

\* int() without the except clause.
TryIntUncaught(x) == ToInt(x)

\* try: int(x) except ValueError: 0
TryInt(x) ==
    IF IsExc(ToInt(x)) /\ ToInt(x).v = "ValueError" THEN PyInt(0)
    ELSE ToInt(x)

\* a.replace(',', '') then the guarded int(), for the str or exception a.
AttendanceOf(a) ==
    IF IsExc(a) THEN a ELSE TryInt(StrReplace(a, <<",">>))

\* mlb attendance: strip the prefix, then int() of the text without
\* commas, 0 on ValueError.
Attendance(attrs) ==
    AttendanceOf(StrReplace(attrs["attendance"], <<"Attendance: ">>))

\* time_of_day answering NIGHT unless the raw line says 'day'.
TimeOfDayUnlessDay(attrs) ==
    IF ~IsStr(attrs["time_of_day"]) THEN Raise("AttributeError")
    ELSE IF Contains(Lower(attrs["time_of_day"].v), <<"day">>) THEN DAY
    ELSE NIGHT

\* mlb time_of_day
TimeOfDay(attrs) ==
    IF ~IsStr(attrs["time_of_day"]) THEN Raise("AttributeError")
    ELSE IF Contains(Lower(attrs["time_of_day"].v), <<"night">>) THEN NIGHT
    ELSE DAY

\* A variant of CompParts that splits without normalising '--'.
CompPartsUnnormalised(x) == Split(x, "-")

\* ncaaf composite accessors: raw.replace('--', '-').split('-').
CompParts(x) == Split(Replace(x, <<"-", "-">>, <<"-">>), "-")

\* A variant of PartAt that catches the errors and answers 0.
PartAtDefaulting(parts, pos) ==
    IF pos >= Len(parts) THEN PyInt(0)
    ELSE IF IsExc(ToInt(PyStr(parts[pos + 1]))) THEN PyInt(0)
    ELSE ToInt(PyStr(parts[pos + 1]))

\* int(parts[pos]) for the split string parts.
PartAt(parts, pos) ==
    IF pos >= Len(parts) THEN Raise("IndexError")
    ELSE ToInt(PyStr(parts[pos + 1]))

\* ncaaf composite accessor on the raw value x: split it, take pos.
CompValue(x, pos) ==
    IF ~IsStr(x) THEN Raise("AttributeError")
    ELSE PartAt(CompParts(x.v), pos)

CompAccessor(attrs, acc) == CompValue(attrs[CompSource(acc)], CompPos(acc))

\* The value (or the exception) of reading accessor acc.
Accessor(sp, attrs, acc) ==
    CASE acc = "date" -> attrs["date"]
      [] acc = "time" -> StrReplace(attrs["time"], <<"Start Time: ">>)
      [] acc = "venue" -> StrReplace(attrs["venue"], <<"Venue: ">>)
      [] acc = "stadium" -> StrReplace(attrs["stadium"], <<"Stadium: ">>)
      [] acc = "duration" ->
            StrReplace(attrs["duration"], <<"Game Duration: ">>)
      [] acc = "attendance" -> Attendance(attrs)
      [] acc = "time_of_day" -> TimeOfDay(attrs)
      [] acc = "winner" -> Winner(sp, attrs)
      [] acc = "winning_name" -> WinningName(sp, attrs)
      [] acc = "winning_abbr" -> WinningAbbr(sp, attrs)
      [] acc = "losing_name" -> LosingName(sp, attrs)
      [] acc = "losing_abbr" -> LosingAbbr(sp, attrs)
      [] sp = "ncaaf" /\ acc \in NcaafCompAcc -> CompAccessor(attrs, acc)
      [] sp = "mlb" /\ acc \in MlbFloatAcc -> ToFloat(attrs[acc])
      [] sp = "mlb" /\ acc \in MlbTryIntAcc -> TryInt(attrs[acc])
      [] OTHER -> ToInt(attrs[acc])

\* A dict display that fills the winning_name column from losing_name.
ColumnAccessorSwapped(key) ==
    IF key = "winning_name" THEN "losing_name" ELSE key

\* The property the dict display of dataframe reads for a key:
\* 'date': self.date, and so on for every key.
ColumnAccessor(key) == key

\* The positions of the dataframe keys whose accessor raises.
RaisingKeys(sp, attrs) ==
    {k \in 1..Len(DataframeKeys(sp)) :
        IsExc(Accessor(sp, attrs, ColumnAccessor(DataframeKeys(sp)[k])))}

\* A DataFrame built without the index argument: pandas numbers the rows.
PyFrameUnindexed(index, row) ==
    [t |-> "frame", v |-> [index |-> <<PyInt(0)>>, rows |-> <<row>>]]

\* pd.DataFrame([row], index=[index]): the list of its index labels and
\* the list of its rows.
PyFrame(index, row) ==
    [t |-> "frame", v |-> [index |-> <<index>>, rows |-> <<row>>]]

\* The dict display and the DataFrame of dataframe when the accessors at
\* the positions in failing raise: the accessors are read in the order of
\* the keys and the first exception ends the evaluation. read lists the
\* accessors evaluated.
FieldsToInclude(sp, attrs, failing) ==
    IF failing = {}
    THEN [res |-> PyFrame(attrs["uri"],
                          [a \in Accessors(sp) |->
                              Accessor(sp, attrs, ColumnAccessor(a))]),
          read |-> DataframeKeys(sp)]
    ELSE [res |-> Accessor(sp, attrs,
                           ColumnAccessor(DataframeKeys(sp)[Least(failing)])),
          read |-> SubSeq(DataframeKeys(sp), 1, Least(failing))]

\* A variant of Dataframe without the test of the two raw scores.
DataframeUnguarded(sp, attrs) ==
    FieldsToInclude(sp, attrs, RaisingKeys(sp, attrs))

\* A variant of Dataframe that gives up as soon as one raw score is None.
DataframeEitherNone(sp, attrs) ==
    IF \/ IsNone(attrs[AwayScoreField(sp)])
       \/ IsNone(attrs[HomeScoreField(sp)])
    THEN [res |-> None, read |-> <<>>]
    ELSE FieldsToInclude(sp, attrs, RaisingKeys(sp, attrs))

\* Boxscore.dataframe: the result together with the accessors it read.
Dataframe(sp, attrs) ==
    IF /\ IsNone(attrs[AwayScoreField(sp)])
       /\ IsNone(attrs[HomeScoreField(sp)])
    THEN [res |-> None, read |-> <<>>]
    ELSE FieldsToInclude(sp, attrs, RaisingKeys(sp, attrs))

(***************************************************************************)
(* The pages the model fetches.                                            *)
(***************************************************************************)
\* '\n'.join(lines)
RECURSIVE JoinLines(_)
JoinLines(lines) ==
    IF Len(lines) = 0 THEN <<>>
    ELSE IF Len(lines) = 1 THEN lines[1]
    ELSE lines[1] \o <<"\n">> \o JoinLines(Tail(lines))

\* A name tag linking to a school or team page, and one without a link.
LinkedTag(sp, name, code) ==
    IF sp = "mlb"
    THEN PyTag(<<name>>, <<"<a href=\"", "/", "teams", "/", code, "/",
                          "2018.shtml", "\">", name, "</a>">>)
    ELSE PyTag(<<name>>, <<"<a href=\"", "/", "cfb", "/", "schools", "/",
                          code, "/", "2017.html", "\">", name, "</a>">>)
PlainTag(name) == PyTag(<<name>>, <<name>>)

\* The narrative block of an ordinary game.
StandardLines(sp) ==
    IF sp = "mlb"
    THEN << <<"Thursday", ", June 7, 2018">>,
            <<"Start Time: ", "7:10 p.m. Local">>,
            <<"Attendance: ", "3", "8", ",", "0", "0", "0">>,
            <<"Venue: ", "Fenway Park">>,
            <<"Game Duration: ", "3:05">>,
            <<"Night", " Game", ", on grass">> >>
    ELSE << <<"Saturday", " Sep 9, 2017">>,
            <<"7:30 PM ET">>,
            <<"Ross-Ade Stadium">>,
            <<"Logos via ", "Sports Logos.net">> >>

\* A played game whose page has every element.
DefaultPage(sp) ==
    [away_score |-> <<NumStr(1)>>,
     home_score |-> <<NumStr(2)>>,
     stat |-> << <<"4">> >>,
     comp |-> << <<"1", "-", "2", "-", "3", "-", "4", "-", "5">> >>,
     narr |-> <<JoinLines(StandardLines(sp))>>,
     away_name |-> LinkedTag(sp, "Away Team", "AWY"),
     home_name |-> PlainTag("Home Team")]

\* Final scores a page may show; an empty cell list is a page without the
\* score element.
ScoreValues == (0..MaxScore) \cup {10}
ScoreCells == {<<>>} \cup {<<NumStr(n)>> : n \in ScoreValues}

\* The texts of the other direct statistics.
StatCells ==
    {<<>>, << <<>> >>, << <<"4">> >>, << <<"x">> >>, << <<"0", ".", "5">> >>}

\* Composite strings of n parts. The k-th part is the number k (style 0)
\* or 10 + k (style 1); every separator is '-' except the j-th, which is
\* w dashes (w = 1: all single); the x-th part, if any, is replaced by
\* bad, a text that is no integer.
PartText(k, style) == NumStr(10 * style + k)
RECURSIVE JoinParts(_, _, _, _)
JoinParts(parts, k, j, w) ==
    IF k = Len(parts) THEN parts[k]
    ELSE parts[k] \o (IF k = j THEN [i \in 1..w |-> "-"] ELSE <<"-">>)
         \o JoinParts(parts, k + 1, j, w)
CompTexts ==
    UNION {
        {JoinParts([k \in 1..n |-> PartText(k, style)], 1, jw[1], jw[2]) :
            style \in {0, 1},
            jw \in {<<0, 1>>} \cup ((1..(n - 1)) \X {2, 3})}
        \cup
        {JoinParts([k \in 1..n |-> IF k = x THEN bad ELSE PartText(k, 0)],
                   1, 0, 1) :
            x \in 1..n, bad \in {<<>>, <<"x">>}}
        : n \in 1..MaxParts}
CompCells == {<<>>} \cup {<<c>> : c \in CompTexts}

\* The attendance line as pages print it: a number with or without
\* thousands separators, nothing, a word, and a number without the prefix.
AttendanceLines ==
    { <<"Attendance: ", "1", ",", "2", "3", "4">>,
      <<"Attendance: ", "1", "2">>,
      <<"Attendance: ">>,
      <<"Attendance: ", "unknown">>,
      <<"1", "2">> }

\* mlb blocks with each attendance line, and a doubleheader block that
\* leaves the attendance out.
AttendanceBlocks ==
    { <<JoinLines([StandardLines("mlb") EXCEPT ![3] = l])>> :
          l \in AttendanceLines }
    \cup { <<JoinLines(<< <<"First Game of Doubleheader">>,
                         StandardLines("mlb")[1],
                         StandardLines("mlb")[2] >>)>> }

\* seq without its k-th element.
Without(seq, k) ==
    [i \in 1..(Len(seq) - 1) |-> IF i < k THEN seq[i] ELSE seq[i + 1]]

\* mlb doubleheader blocks: the note and the date followed by the ordinary
\* lines with one of them left out, by nothing, or by a time-of-day line
\* alone (a day game, a night game in capitals).
DoubleheaderBlocks ==
    { <<JoinLines(<< <<"First Game of Doubleheader">> >>
                  \o Without(StandardLines("mlb"), k))>> : k \in 2..6 }
    \cup { <<JoinLines(<< <<"Second Game of Doubleheader">>,
                          StandardLines("mlb")[1] >> \o l)>> :
              l \in { <<>>, << <<"Day", " Game", ", on grass">> >>,
                      << <<"NIGHT", " GAME">> >> } }

\* Narrative blocks: none, the ordinary one, a block cut after its first
\* line, and a block with an extra first line (a doubleheader note in
\* mlb, a bowl title in ncaaf).
NarrChoices(sp) ==
    { <<>>,
      <<JoinLines(StandardLines(sp))>>,
      <<StandardLines(sp)[1]>>,
      <<JoinLines(<< IF sp = "mlb" THEN <<"First Game of Doubleheader">>
                     ELSE <<"Rose Bowl">> >> \o StandardLines(sp))>> }
    \cup (IF sp = "mlb" THEN AttendanceBlocks \cup DoubleheaderBlocks
          ELSE {})

\* The pages of the model: the default page with one group of elements
\* varied at a time.
Pages(sp) ==
    {[DefaultPage(sp) EXCEPT !.away_score = a, !.home_score = h] :
        a \in ScoreCells, h \in ScoreCells}
    \cup {[DefaultPage(sp) EXCEPT !.stat = c] : c \in StatCells}
    \cup {[DefaultPage(sp) EXCEPT !.narr = c] : c \in NarrChoices(sp)}
    \cup {[DefaultPage(sp) EXCEPT !.away_name = a, !.home_name = h,
                                  !.away_score = <<NumStr(r[1])>>,
                                  !.home_score = <<NumStr(r[2])>>] :
            a \in {LinkedTag(sp, "Away Team", "AWY"), PlainTag("Away Team")},
            h \in {LinkedTag(sp, "Home Team", "HOM"), PlainTag("Home Team")},
            r \in {<<1, 2>>, <<2, 1>>, <<1, 1>>}}
    \cup (IF sp = "ncaaf"
          THEN {[DefaultPage(sp) EXCEPT !.comp = c] : c \in CompCells}
          ELSE {})

\* What the network answers: a failed fetch or a page.
Nets(sp) ==
    {[ok |-> FALSE, page |-> DefaultPage(sp)]}
    \cup {[ok |-> TRUE, page |-> p] : p \in Pages(sp)}

\* The uris a Boxscore is constructed with; all pages are fetched under
\* the first, the failed fetch and the default page under both.
DefaultUri(sp) ==
    IF sp = "mlb" THEN PyStr(<<"BOS201806070">>)
    ELSE PyStr(<<"2018-01-08-georgia">>)
Uris(sp) ==
    {DefaultUri(sp),
     IF sp = "mlb" THEN PyStr(<<"SLN201807280">>)
     ELSE PyStr(<<"2017-09-09-michigan">>)}

(***************************************************************************)
(* Boxscores: the game-day finder.                                         *)
(*                                                                         *)
(* An index page is the sequence of its tables; a table has a class and a  *)
(* sequence of cells; a cell has a class and the anchors inside it.        *)
(***************************************************************************)
PyList(l) == [t |-> "list", v |-> l]

\* The offsets at which pat occurs in s.
Occurrences(s, pat) ==
    {i \in 0..(Len(s) - Len(pat)) : \A j \in 1..Len(pat) : s[i + j] = pat[j]}

\* The greatest element of a non-empty set of numbers.
Greatest(S) == CHOOSE k \in S : \A m \in S : k >= m

\* re.sub('.*' + pat, '', s) on a one-line s: the greedy match drops
\* everything up to the end of the last occurrence of pat.
DropThroughLast(s, pat) ==
    IF Occurrences(s, pat) = {} THEN s
    ELSE SubSeq(s, Greatest(Occurrences(s, pat)) + Len(pat) + 1, Len(s))

\* re.sub(pat + '.*', '', s) on a one-line s: drops from the first
\* occurrence of pat to the end.
DropFromFirst(s, pat) ==
    IF Occurrences(s, pat) = {} THEN s
    ELSE SubSeq(s, 1, Least(Occurrences(s, pat)))

\* str.strip()
Blank == {" ", "\n"}
Strip(s) ==
    IF \A i \in 1..Len(s) : s[i] \in Blank THEN <<>>
    ELSE SubSeq(s, Least({i \in 1..Len(s) : s[i] \notin Blank}),
                Greatest({i \in 1..Len(s) : s[i] \notin Blank}))

\* str() of a selection: the markup of its elements, one after another.
RECURSIVE StrOf(_)
StrOf(tags) ==
    IF Len(tags) = 0 THEN <<>>
    ELSE TagStr(Head(tags)) \o StrOf(Tail(tags))

\* game('td a'): the anchors of all cells, in document order.
RECURSIVE TdAnchors(_)
TdAnchors(game) ==
    IF Len(game) = 0 THEN <<>>
    ELSE Head(game).anchors \o TdAnchors(Tail(game))

\* game('td[class="right gamelink"] a')
RECURSIVE GameLinkAnchors(_)
GameLinkAnchors(game) ==
    IF Len(game) = 0 THEN <<>>
    ELSE (IF Head(game).cls = "right gamelink" THEN Head(game).anchors
          ELSE <<>>) \o GameLinkAnchors(Tail(game))

\* page('table[class="teams"]').items()
IsTeamsTable(table) == table.cls = "teams"
TeamsTables(page) == SelectSeq(page, IsTeamsTable)

\* Boxscores._get_requested_page: pq(url) with nothing around it, so a
\* failing fetch raises.
GetRequestedPage(n) ==
    IF n.ok THEN PyPage(n.tables) ELSE Raise("HTTPError")

\* Boxscores._get_boxscore_uri
GetBoxscoreUri(sp, url) ==
    IF sp = "mlb"
    THEN PyStr(Strip(DropFromFirst(
             DropThroughLast(StrOf(url), <<"/", "boxes", "/">>),
             <<".shtml">>)))
    ELSE PyStr(Strip(DropFromFirst(
             DropThroughLast(StrOf(url), <<"cfb", "/", "boxscores", "/">>),
             <<".html">>)))

\* Boxscores._parse_abbreviation
ParseAbbreviation(sp, abbr) ==
    IF sp = "mlb"
    THEN PyStr(DropFromFirst(
             DropThroughLast(TagStr(abbr), <<"/", "teams", "/">>), <<"/">>))
    ELSE IF ~Contains(TagStr(abbr), <<"cfb", "/", "schools">>) THEN None
    ELSE PyStr(DropFromFirst(
             DropThroughLast(TagStr(abbr), <<"/", "schools", "/">>),
             <<"/">>))

\* `not abbr` for None or a str
Falsy(x) == IsNone(x) \/ (IsStr(x) /\ x.v = <<>>)

\* _get_name without the fallback of ncaaf: the parsed abbreviation is
\* kept and no team is flagged.
GetNameOfWithoutFallback(sp, team_name, abbr) ==
    [name |-> team_name, abbr |-> abbr, non_di |-> FALSE]

\* Boxscores._get_name from the text and the parsed abbreviation of the
\* tag; mlb has no non_di and never replaces the abbreviation.
GetNameOf(sp, team_name, abbr) ==
    [name |-> team_name,
     abbr |-> IF sp = "ncaaf" /\ Falsy(abbr) THEN team_name ELSE abbr,
     non_di |-> sp = "ncaaf" /\ Falsy(abbr)]

GetName(sp, name) == GetNameOf(sp, TagText(name), ParseAbbreviation(sp, name))

\* _get_team_names taking the home team from the second link.
GetTeamNamesHomeSecond(sp, links) ==
    [away |-> GetName(sp, links[1]),
     home |-> GetName(sp, links[IF Len(links) > 1 THEN 2 ELSE 1])]

\* Boxscores._get_team_names for a non-empty list of links: away is
\* links[0], home is links[-1].
GetTeamNames(sp, links) ==
    [away |-> GetName(sp, links[1]), home |-> GetName(sp, links[Len(links)])]

\* The game_info dictionary with non_di set only when both teams are
\* flagged.
GameInfoOfBothFlagged(sp, names, boxscore_uri) ==
    IF sp = "mlb"
    THEN [boxscore |-> boxscore_uri,
          away_name |-> names.away.name, away_abbr |-> names.away.abbr,
          home_name |-> names.home.name, home_abbr |-> names.home.abbr]
    ELSE [boxscore |-> boxscore_uri,
          away_name |-> names.away.name, away_abbr |-> names.away.abbr,
          home_name |-> names.home.name, home_abbr |-> names.home.abbr,
          non_di |-> PyBool(names.away.non_di /\ names.home.non_di)]

\* The game_info dictionary of _extract_game_info.
GameInfoOf(sp, names, boxscore_uri) ==
    IF sp = "mlb"
    THEN [boxscore |-> boxscore_uri,
          away_name |-> names.away.name, away_abbr |-> names.away.abbr,
          home_name |-> names.home.name, home_abbr |-> names.home.abbr]
    ELSE [boxscore |-> boxscore_uri,
          away_name |-> names.away.name, away_abbr |-> names.away.abbr,
          home_name |-> names.home.name, home_abbr |-> names.home.abbr,
          non_di |-> PyBool(names.away.non_di \/ names.home.non_di)]

GameInfo(sp, game) ==
    GameInfoOf(sp, GetTeamNames(sp, TdAnchors(game)),
               GetBoxscoreUri(sp, GameLinkAnchors(game)))

\* _extract_game_info returning nothing when no game is found.
ExtractGameInfoNoneWhenEmpty(sp, games) ==
    IF Len(games) = 0 THEN None
    ELSE PyList([i \in 1..Len(games) |-> GameInfo(sp, games[i].cells)])

\* _extract_game_info putting each new dictionary in front of the list.
ExtractGameInfoNewestFirst(sp, games) ==
    IF \E i \in 1..Len(games) : Len(TdAnchors(games[i].cells)) = 0
    THEN Raise("IndexError")
    ELSE PyList([i \in 1..Len(games) |->
                    GameInfo(sp, games[Len(games) + 1 - i].cells)])

\* Boxscores._extract_game_info: one dictionary per game, in order;
\* links[0] raises for a game without any anchor.
ExtractGameInfo(sp, games) ==
    IF \E i \in 1..Len(games) : Len(TdAnchors(games[i].cells)) = 0
    THEN Raise("IndexError")
    ELSE PyList([i \in 1..Len(games) |-> GameInfo(sp, games[i].cells)])

\* Boxscores._find_games from the fetched page on: the new games mapping,
\* or the exception that leaves the old one.
FindGamesOn(sp, page, old) ==
    IF IsExc(page) THEN [exc |-> page, boxscores |-> old]
    ELSE IF IsExc(ExtractGameInfo(sp, TeamsTables(page.v)))
    THEN [exc |-> ExtractGameInfo(sp, TeamsTables(page.v)), boxscores |-> old]
    ELSE [exc |-> None,
          boxscores |->
              [boxscores |-> ExtractGameInfo(sp, TeamsTables(page.v))]]

(***************************************************************************)
(* Index pages of the model.                                               *)
(***************************************************************************)
MaxGames == 2

Cell(cls, anchors) == [cls |-> cls, anchors |-> anchors]

\* The anchor of the 'Final' link to a boxscore.
FinalAnchor(sp) ==
    IF sp = "mlb"
    THEN PyTag(<<"Final">>, <<"<a href=\"", "/", "boxes", "/", "SLN", "/",
                             "SLN201807280", ".shtml", "\">", "Final",
                             "</a>">>)
    ELSE PyTag(<<"Final">>, <<"<a href=\"", "/", "cfb", "/", "boxscores", "/",
                             "2017-09-09-michigan", ".html", "\">", "Final",
                             "</a>">>)

\* An anchor that links neither to a team nor to a boxscore.
OtherAnchor(name) ==
    PyTag(<<name>>, <<"<a href=\"", "/", "players", "/", "x", "\">", name,
                      "</a>">>)

\* The cells of a game table; the away row comes first and carries the
\* boxscore link.
GameCells(sp) ==
    { \* both teams linked
      << Cell("", <<LinkedTag(sp, "Away Team", "AWY")>>), Cell("right", <<>>),
         Cell("right gamelink", <<FinalAnchor(sp)>>),
         Cell("", <<LinkedTag(sp, "Home Team", "HOM")>>),
         Cell("right", <<>>) >>,
      \* the home team printed without any anchor
      << Cell("", <<LinkedTag(sp, "Away Team", "AWY")>>), Cell("right", <<>>),
         Cell("right gamelink", <<FinalAnchor(sp)>>),
         Cell("", <<>>), Cell("right", <<>>) >>,
      \* the away team linked elsewhere, no boxscore link yet
      << Cell("", <<OtherAnchor("Away Team")>>), Cell("right", <<>>),
         Cell("right gamelink", <<>>),
         Cell("", <<LinkedTag(sp, "Home Team", "HOM")>>),
         Cell("right", <<>>) >>,
      \* a boxscore link outside the cell of class 'right gamelink'
      << Cell("", <<LinkedTag(sp, "Away Team", "AWY")>>),
         Cell("right", <<FinalAnchor(sp)>>),
         Cell("right gamelink", <<>>),
         Cell("", <<LinkedTag(sp, "Home Team", "HOM")>>) >>,
      \* a single anchor
      << Cell("", <<LinkedTag(sp, "Away Team", "AWY")>>),
         Cell("right", <<>>) >>,
      \* no anchor at all
      << Cell("", <<>>), Cell("right", <<>>) >> }

\* The tables a page may hold: game tables and a table of another class.
Tables(sp) ==
    {[cls |-> "teams", cells |-> c] : c \in GameCells(sp)}
    \cup {[cls |-> "stats", cells |->
              << Cell("", <<OtherAnchor("Standings")>>) >>]}

RECURSIVE TableLists(_, _)
TableLists(sp, n) ==
    IF n = 0 THEN {<<>>}
    ELSE TableLists(sp, n - 1)
         \cup {Append(l, t) : l \in {m \in TableLists(sp, n - 1) :
                                        Len(m) = n - 1},
                              t \in Tables(sp)}

\* What the network answers for the index page of the requested date.
IndexNets(sp) ==
    {[ok |-> FALSE, tables |-> <<>>]}
    \cup {[ok |-> TRUE, tables |-> l] : l \in TableLists(sp, MaxGames)}

(***************************************************************************)
(* Narrative blocks given to _parse_game_date_and_location on its own.     *)
(***************************************************************************)
MaxItems == 2
MaxLines == 2
MaxIndex == 2

\* The lines a narrative element may be made of.
NarrLines(sp) ==
    IF sp = "mlb"
    THEN { <<"Thursday", ", June 7, 2018">>,
           <<"Start Time: ", "7:10 p.m. Local">>,
           <<"Night", " Game", ", on grass">>,
           <<"Day", " Game", ", on turf">>,
           <<"First Game of Doubleheader">>,
           <<"Sunday, ", "SECOND GAME OF DOUBLEHEADER">> }
    ELSE { <<"Saturday", " Sep 9, 2017">>,
           <<"SATURDAY", " JAN 1, 2018">>,
           <<"Rose Bowl">>,
           <<"7:30 PM ET">>,
           <<"Logos via ", "Sports Logos.net">>,
           <<>> }

RECURSIVE LineLists(_, _)
LineLists(sp, n) ==
    IF n = 1 THEN {<<l>> : l \in NarrLines(sp)}
    ELSE LineLists(sp, n - 1)
         \cup {Append(ls, l) : ls \in {m \in LineLists(sp, n - 1) :
                                          Len(m) = n - 1},
                               l \in NarrLines(sp)}

\* The texts of the matched elements: one to MaxLines lines each.
NarrItems(sp) == {JoinLines(ls) : ls \in LineLists(sp, MaxLines)}

\* The lists of matched elements: none, or a first element followed by
\* up to MaxItems - 1 one-line elements.
RECURSIVE LaterItems(_, _)
LaterItems(sp, n) ==
    IF n = 0 THEN {<<>>}
    ELSE LaterItems(sp, n - 1)
         \cup {Append(is, l) : is \in {m \in LaterItems(sp, n - 1) :
                                          Len(m) = n - 1},
                               l \in NarrLines(sp)}

ItemLists(sp, n) ==
    {<<>>} \cup {<<i>> \o is : i \in NarrItems(sp),
                               is \in LaterItems(sp, n - 1)}

(***************************************************************************)
(* Pages and index tables given to the generic extraction on its own.     *)
(***************************************************************************)
\* The elements a scheme may select: the first n of a row of cells.
CellRow == << <<"4">>, <<"5">>, <<"6">>, <<"7">>, <<"8">> >>
CellLists == {SubSeq(CellRow, 1, n) : n \in 0..(MaxIndex + 2)}

\* A page whose schemes all select the same elements.
GenericPage(sp, cells) ==
    [DefaultPage(sp) EXCEPT !.stat = cells, !.comp = cells,
                            !.away_score = cells, !.home_score = cells]

\* BOXSCORE_ELEMENT_INDEX as the model has it, and with one more entry,
\* for the field parsed or for another one.
IndexTables(sp, field) ==
    {ElementIndex(sp)}
    \cup {(f :> i) @@ ElementIndex(sp) :
             f \in {field, "uri"}, i \in 0..MaxIndex}

(***************************************************************************)
(* State.                                                                  *)
(***************************************************************************)
VARIABLES
    sport,      \* which module the object comes from
    \* a Boxscore
    uri,        \* the argument of the constructor
    net,        \* what fetching the boxscore page will answer
    pc,         \* "created": attributes assigned, _parse_game_data not run;
                \* "ready": constructed; "raised": the constructor raised
    attrs,      \* the instance attributes (self.__dict__)
    boxscore,   \* what _retrieve_html_page returned
    raised,     \* the exception the constructor raised, or None
    last,       \* the last property read: its name, its value or
                \* exception, and the accessors a dataframe read evaluated
    \* a Boxscores finder
    fnet,           \* what fetching the index page will answer
    fpc,            \* "created": _boxscores assigned, _find_games not run;
                    \* "ready": constructed; "raised": the constructor raised
    self_boxscores, \* self._boxscores
    fraised,        \* the exception the constructor raised, or None
    fgames,         \* the last value read from the games property
    \* one call of _parse_game_date_and_location
    nfield,     \* its field argument
    nitems,     \* the texts of the elements the field's scheme selects
    nindex,     \* BOXSCORE_ELEMENT_INDEX[field]
    npc,        \* "input" before the call, "parsed" after it
    nresult,    \* what the call returned or raised
    \* one pass of the loop of _parse_game_data for a generic field
    gfield,     \* the field
    gcells,     \* the texts of the elements the field's scheme selects
    gtable,     \* BOXSCORE_ELEMENT_INDEX
    gpc,        \* "input" before the pass, "parsed" after it
    gresult,    \* the value the pass sets the attribute to
    \* two objects alive in one process
    objs,       \* the two instances: class, constructor argument, what
                \* the fetch of its page will answer, position in the
                \* constructor, instance attributes, exception raised
    plast       \* the last property read: the instance, the name, the
                \* value or exception

boxvars == <<uri, net, pc, attrs, boxscore, raised, last>>
findvars == <<fnet, fpc, self_boxscores, fraised, fgames>>
narrvars == <<nfield, nitems, nindex, npc, nresult>>
genvars == <<gfield, gcells, gtable, gpc, gresult>>
pairvars == <<objs, plast>>
vars == <<sport, boxvars, findvars, narrvars, genvars, pairvars>>

Unset == [t |-> "unset", v |-> <<>>]
NoRead == [acc |-> "", res |-> Unset, read |-> <<>>]

\* No Boxscore, no finder, no parser call under way.
NoBoxscore ==
    /\ uri = None
    /\ net = [ok |-> FALSE, page |-> <<>>]
    /\ pc = "none"
    /\ attrs = <<>>
    /\ boxscore = Unset
    /\ raised = None
    /\ last = NoRead
NoFinder ==
    /\ fnet = [ok |-> FALSE, tables |-> <<>>]
    /\ fpc = "none"
    /\ self_boxscores = Unset
    /\ fraised = None
    /\ fgames = Unset
NoNarrative ==
    /\ nfield = ""
    /\ nitems = <<>>
    /\ nindex = 0
    /\ npc = "none"
    /\ nresult = Unset
NoGeneric ==
    /\ gfield = ""
    /\ gcells = <<>>
    /\ gtable = <<>>
    /\ gpc = "none"
    /\ gresult = Unset
NoPair ==
    /\ objs = <<>>
    /\ plast = Unset

\* Boxscore(uri) up to the call of _parse_game_data.
Init ==
    /\ sport \in Sports
    /\ net \in Nets(sport)
    /\ pc = "created"
    /\ uri \in Uris(sport)
    /\ uri = DefaultUri(sport) \/ net.page = DefaultPage(sport)
    /\ attrs = InitialAttributes(sport, uri)
    /\ boxscore = Unset
    /\ raised = None
    /\ last = NoRead
    /\ NoFinder
    /\ NoNarrative
    /\ NoGeneric
    /\ NoPair

\* The call self._parse_game_data(uri) that ends __init__.
RunParseGameData ==
    /\ pc = "created"
    /\ boxscore' = RetrieveHtmlPage(net)
    /\ attrs' = ParseGameData(sport, attrs, boxscore').attrs
    /\ raised' = ParseGameData(sport, attrs, boxscore').exc
    /\ pc' = IF IsExc(raised') THEN "raised" ELSE "ready"
    /\ UNCHANGED <<sport, uri, net, last, findvars, narrvars, genvars,
                   pairvars>>

\* A property read that keeps the derived winner and team values in the
\* attributes __init__ reserved for them.
ReadAccessorCaching ==
    /\ pc = "ready"
    /\ \E acc \in Accessors(sport) :
          /\ last' = [acc |-> acc, res |-> Accessor(sport, attrs, acc),
                      read |-> <<>>]
          /\ attrs' = IF /\ acc \in SkippedFields
                         /\ ~IsExc(Accessor(sport, attrs, acc))
                      THEN [attrs EXCEPT ![acc] = Accessor(sport, attrs, acc)]
                      ELSE attrs
    /\ UNCHANGED <<sport, uri, net, pc, boxscore, raised, findvars, narrvars,
                   genvars,
                   pairvars>>

\* Reading one typed property of a constructed Boxscore.
ReadAccessor ==
    /\ pc = "ready"
    /\ \E acc \in Accessors(sport) :
          last' = [acc |-> acc, res |-> Accessor(sport, attrs, acc),
                   read |-> <<>>]
    /\ UNCHANGED <<sport, uri, net, pc, attrs, boxscore, raised, findvars,
                   narrvars, genvars,
                   pairvars>>

\* Reading the dataframe property of a constructed Boxscore.
ReadDataframe ==
    /\ pc = "ready"
    /\ last' = [acc |-> "dataframe"] @@ Dataframe(sport, attrs)
    /\ UNCHANGED <<sport, uri, net, pc, attrs, boxscore, raised, findvars,
                   narrvars, genvars,
                   pairvars>>

Next == RunParseGameData \/ ReadAccessor \/ ReadDataframe

Spec == Init /\ [][Next]_vars

\* Boxscores(date) up to the call of _find_games.
InitFinder ==
    /\ sport \in Sports
    /\ fnet \in IndexNets(sport)
    /\ fpc = "created"
    /\ self_boxscores = [boxscores |-> PyList(<<>>)]
    /\ fraised = None
    /\ fgames = Unset
    /\ NoBoxscore
    /\ NoNarrative
    /\ NoGeneric
    /\ NoPair

\* The call self._find_games(date) that ends __init__.
FindGames ==
    /\ fpc = "created"
    /\ self_boxscores' =
           FindGamesOn(sport, GetRequestedPage(fnet), self_boxscores).boxscores
    /\ fraised' =
           FindGamesOn(sport, GetRequestedPage(fnet), self_boxscores).exc
    /\ fpc' = IF IsExc(fraised') THEN "raised" ELSE "ready"
    /\ UNCHANGED <<sport, fnet, fgames, boxvars, narrvars, genvars,
                   pairvars>>

\* Reading the games property of a constructed finder.
ReadGames ==
    /\ fpc = "ready"
    /\ fgames' = self_boxscores
    /\ UNCHANGED <<sport, fnet, fpc, self_boxscores, fraised, boxvars,
                   narrvars, genvars,
                   pairvars>>

NextFinder == FindGames \/ ReadGames

SpecFinder == InitFinder /\ [][NextFinder]_vars

\* The arguments of one call of _parse_game_date_and_location.
InitNarrative ==
    /\ sport \in Sports
    /\ nfield \in NarrativeFields(sport)
    /\ nitems \in ItemLists(sport, MaxItems)
    /\ nindex \in 0..MaxIndex
    /\ npc = "input"
    /\ nresult = Unset
    /\ NoBoxscore
    /\ NoFinder
    /\ NoGeneric
    /\ NoPair

\* The call itself.
ParseNarrative ==
    /\ npc = "input"
    /\ nresult' = ParseAt(sport, nfield, nitems, nindex)
    /\ npc' = "parsed"
    /\ UNCHANGED <<sport, nfield, nitems, nindex, boxvars, findvars,
                   genvars,
                   pairvars>>

NextNarrative == ParseNarrative

SpecNarrative == InitNarrative /\ [][NextNarrative]_vars

\* One generic field, what its scheme selects and the index table.
InitGeneric ==
    /\ sport \in Sports
    /\ gfield \in GenericFields(sport)
    /\ gcells \in CellLists
    /\ gtable \in IndexTables(sport, gfield)
    /\ gpc = "input"
    /\ gresult = Unset
    /\ NoBoxscore
    /\ NoFinder
    /\ NoNarrative
    /\ NoPair

\* The pass of the loop for the field.
ParseGeneric ==
    /\ gpc = "input"
    /\ gresult' = GenericValue(sport, GenericPage(sport, gcells), gfield,
                               gtable)
    /\ gpc' = "parsed"
    /\ UNCHANGED <<sport, gfield, gcells, gtable, boxvars, findvars,
                   narrvars,
                   pairvars>>

NextGeneric == ParseGeneric

SpecGeneric == InitGeneric /\ [][NextGeneric]_vars

(***************************************************************************)
(* Two objects of the boxscore modules alive in one process.               *)
(***************************************************************************)
Instances == {1, 2}

\* What each object is constructed from: its class, the constructor
\* argument and what the fetch of its page will answer.
PairDate == PyStr(<<"2018-07-28">>)
PairInputs(sp) ==
    {[kind |-> "Boxscore", arg |-> DefaultUri(sp),
      net |-> [ok |-> FALSE, page |-> DefaultPage(sp)]]}
    \cup {[kind |-> "Boxscore", arg |-> u,
           net |-> [ok |-> TRUE, page |-> DefaultPage(sp)]] : u \in Uris(sp)}
    \cup {[kind |-> "Boxscore", arg |-> DefaultUri(sp),
           net |-> [ok |-> TRUE,
                    page |-> [DefaultPage(sp) EXCEPT
                                 !.away_score = <<NumStr(2)>>,
                                 !.home_score = <<NumStr(1)>>,
                                 !.home_name =
                                     LinkedTag(sp, "Home Team", "HOM")]]]}
    \cup {[kind |-> "Boxscores", arg |-> PairDate, net |-> n] :
            n \in {[ok |-> FALSE, tables |-> <<>>],
                   [ok |-> TRUE, tables |-> <<>>]}}
    \cup {[kind |-> "Boxscores", arg |-> PairDate,
           net |-> [ok |-> TRUE, tables |-> l]] :
            l \in {m \in TableLists(sp, 2) :
                     /\ Len(m) > 0
                     /\ \A i \in 1..Len(m) :
                           /\ m[i].cls = "teams"
                           /\ Len(TdAnchors(m[i].cells)) = 3}}

\* The object when the assignments of __init__ are done and the parsing
\* call that ends __init__ is still to come.
NewInstance(sp, in) ==
    [kind |-> in.kind, arg |-> in.arg, net |-> in.net, pc |-> "created",
     fields |-> IF in.kind = "Boxscore" THEN InitialAttributes(sp, in.arg)
                ELSE [boxscores |-> PyList(<<>>)],
     exc |-> None]

\* The object x after the parsing call gave the attributes fields and the
\* exception (or None) exc.
Outcome(x, fields, exc) ==
    [x EXCEPT !.fields = fields, !.exc = exc,
              !.pc = IF IsExc(exc) THEN "raised" ELSE "ready"]

BoxscoreOutcome(x, r) == Outcome(x, r.attrs, r.exc)
BoxscoresOutcome(x, r) == Outcome(x, r.boxscores, r.exc)

\* The object x after self._parse_game_data(uri) or self._find_games(date).
Constructed(sp, x) ==
    IF x.kind = "Boxscore"
    THEN BoxscoreOutcome(x, ParseGameData(sp, x.fields,
                                          RetrieveHtmlPage(x.net)))
    ELSE BoxscoresOutcome(x, FindGamesOn(sp, GetRequestedPage(x.net),
                                         x.fields))

\* Attributes kept on the class: what one object assigns, every object of
\* that class holds.
StoreOnClass(heap, o, x) ==
    [q \in DOMAIN heap |->
        IF q = o THEN x
        ELSE IF heap[q].kind = x.kind
             THEN [heap[q] EXCEPT !.fields = x.fields]
             ELSE heap[q]]

\* setattr(self, ...) and self._boxscores = ...: the attributes of object
\* o are replaced, the other objects are left as they are.
StoreOnSelf(heap, o, x) == [heap EXCEPT ![o] = x]

\* The properties read of the objects: for a Boxscore the export, which
\* evaluates every accessor, and the accessors of the attributes that
\* __init__ reserves without filling; for a finder its games.
PairReads(kind) ==
    IF kind = "Boxscore"
    THEN {"dataframe", "winner", "winning_name", "winning_abbr",
          "losing_name", "losing_abbr"}
    ELSE {"games"}

ReadOf(sp, x, acc) ==
    IF x.kind = "Boxscores" THEN x.fields
    ELSE IF acc = "dataframe" THEN Dataframe(sp, x.fields).res
    ELSE Accessor(sp, x.fields, acc)

\* Two objects, each up to the parsing call of its constructor.
InitPair ==
    /\ sport \in Sports
    /\ objs \in {[o \in Instances |-> NewInstance(sport, in[o])] :
                    in \in [Instances -> PairInputs(sport)]}
    /\ plast = Unset
    /\ NoBoxscore
    /\ NoFinder
    /\ NoNarrative
    /\ NoGeneric

\* The parsing call that ends the constructor of one of the objects.
PairConstruct ==
    /\ \E o \in Instances :
          /\ objs[o].pc = "created"
          /\ objs' = StoreOnSelf(objs, o, Constructed(sport, objs[o]))
    /\ UNCHANGED <<sport, plast, boxvars, findvars, narrvars, genvars>>

\* Reading a property of one of the objects.
PairRead ==
    /\ \E o \in Instances :
          /\ objs[o].pc = "ready"
          /\ \E acc \in PairReads(objs[o].kind) :
                plast' = [obj |-> o, acc |-> acc,
                          res |-> ReadOf(sport, objs[o], acc)]
    /\ UNCHANGED <<sport, objs, boxvars, findvars, narrvars, genvars>>

NextPair == PairConstruct \/ PairRead

SpecPair == InitPair /\ [][NextPair]_vars

(***************************************************************************)
(* An ncaaf Boxscore whose raw attributes are set directly, the way the    *)
(* unit tests prepare one: _parse_game_data is stubbed and the raw         *)
(* attributes are assigned before the accessors are read.                  *)
(***************************************************************************)
\* The composite strings assigned: 1-2-3-4-5 and 11-12-13-14-15.
RawComposites ==
    {JoinParts([k \in 1..5 |-> PartText(k, style)], 1, 0, 1) :
        style \in {0, 1}}

\* The raw attributes every test starts from: those of the default page.
BaseAttributes(sp) ==
    ParseGameData(sp, InitialAttributes(sp, DefaultUri(sp)),
                  PyPage(DefaultPage(sp))).attrs

\* The base attributes with one composite attribute assigned.
RawAttributes(sp) ==
    {[BaseAttributes(sp) EXCEPT ![f] = PyStr(c)] :
        f \in NcaafCompAcc, c \in RawComposites}

InitRaw ==
    /\ sport = "ncaaf"
    /\ uri = DefaultUri(sport)
    /\ net = [ok |-> FALSE, page |-> <<>>]
    /\ pc = "ready"
    /\ attrs \in RawAttributes(sport)
    /\ boxscore = Unset
    /\ raised = None
    /\ last = NoRead
    /\ NoFinder
    /\ NoNarrative
    /\ NoGeneric
    /\ NoPair

NextRaw == ReadAccessor \/ ReadDataframe

SpecRaw == InitRaw /\ [][NextRaw]_vars

(***************************************************************************)
(* Vocabulary of the properties: texts read independently of the code's    *)
(* own replace/split/int.                                                  *)
(***************************************************************************)
\* The k-th smallest element of a set of numbers.
Nth(S, k) == CHOOSE i \in S : Cardinality({m \in S : m <= i}) = k

\* s is the decimal text of the number n.
IsNumber(s, n) == s = NumStr(n)
IsIntegerText(s) == \E n \in 0..MaxValue : IsNumber(s, n)

\* The positions of the dashes of s.
DashesOf(s) == {i \in 1..Len(s) : s[i] = "-"}

\* The p-th (from 1) dash-separated part of s.
PartOf(s, p) ==
    SubSeq(s,
           IF p = 1 THEN 1 ELSE Nth(DashesOf(s), p - 1) + 1,
           IF p = Cardinality(DashesOf(s)) + 1 THEN Len(s)
           ELSE Nth(DashesOf(s), p) - 1)
PartCount(s) == Cardinality(DashesOf(s)) + 1

\* s with each '--' replaced by '-': in every run of dashes, the dashes at
\* an even offset from the start of the run are kept.
RunStart(s, i) == Least({j \in 1..i : \A m \in j..i : s[m] = "-"})
KeptPositions(s) ==
    {i \in 1..Len(s) : s[i] # "-" \/ (i - RunStart(s, i)) % 2 = 0}
Normalised(s) ==
    [k \in 1..Cardinality(KeptPositions(s)) |-> s[Nth(KeptPositions(s), k)]]

\* The format of a composite accessor, from the comment of its property:
\* 'Rush-Yds-TDs', 'Cmp-Att-Yd-TD-INT', 'Fumbles-Lost', 'Penalties-Yards'.
FormatOf(acc) ==
    CASE acc \in {"away_rush_attempts", "away_rush_yards",
                  "away_rush_touchdowns", "home_rush_attempts",
                  "home_rush_yards", "home_rush_touchdowns"} -> "rush"
      [] acc \in {"away_pass_completions", "away_pass_attempts",
                  "away_pass_yards", "away_pass_touchdowns",
                  "away_interceptions", "home_pass_completions",
                  "home_pass_attempts", "home_pass_yards",
                  "home_pass_touchdowns", "home_interceptions"} -> "pass"
      [] acc \in {"away_fumbles", "away_fumbles_lost", "home_fumbles",
                  "home_fumbles_lost"} -> "fumbles"
      [] OTHER -> "penalties"
FormatParts(acc) ==
    CASE FormatOf(acc) = "rush" -> 3
      [] FormatOf(acc) = "pass" -> 5
      [] OTHER -> 2

\* The position each accessor has in its documented format.
FormatPosition(acc) ==
    CASE acc \in {"away_rush_attempts", "home_rush_attempts",
                  "away_pass_completions", "home_pass_completions",
                  "away_fumbles", "home_fumbles",
                  "away_penalties", "home_penalties"} -> 0
      [] acc \in {"away_rush_yards", "home_rush_yards",
                  "away_pass_attempts", "home_pass_attempts",
                  "away_fumbles_lost", "home_fumbles_lost",
                  "away_yards_from_penalties",
                  "home_yards_from_penalties"} -> 1
      [] acc \in {"away_rush_touchdowns", "home_rush_touchdowns",
                  "away_pass_yards", "home_pass_yards"} -> 2
      [] acc \in {"away_pass_touchdowns", "home_pass_touchdowns"} -> 3
      [] OTHER -> 4

\* The side ("away" or "home") of a composite accessor, and the raw
\* attributes that hold the composite string of its format for that side.
AwayComposite ==
    {"away_rush_attempts", "away_rush_yards", "away_rush_touchdowns",
     "away_pass_completions", "away_pass_attempts", "away_pass_yards",
     "away_pass_touchdowns", "away_interceptions", "away_fumbles",
     "away_fumbles_lost", "away_penalties", "away_yards_from_penalties"}
SideOf(acc) == IF acc \in AwayComposite THEN "away" ELSE "home"
GroupOf(acc) ==
    {a \in NcaafCompAcc : FormatOf(a) = FormatOf(acc) /\ SideOf(a) = SideOf(acc)}

\* s is a well-formed composite string of k integers.
WellFormed(s, k) ==
    /\ PartCount(s) = k
    /\ \A p \in 1..k : IsIntegerText(PartOf(s, p))

\* A composite accessor of a constructed ncaaf Boxscore has just been read.
CompositeRead ==
    /\ pc = "ready"
    /\ sport = "ncaaf"
    /\ last.acc \in NcaafCompAcc

(***************************************************************************)
(* Properties of the Boxscore accessors and constructor.                   *)
(***************************************************************************)
\* C1: for every pair of integer scores, winner is HOME if and only if the
\* home score is greater than the away score; in every other case, a tie
\* included, it is AWAY (mlb runs and ncaaf points alike).
C1_WinnerHomeIffHomeGreater ==
    \A h, a \in 0..MaxValue :
        ( /\ pc = "ready"
          /\ last.acc = "winner"
          /\ IsStr(attrs[HomeScoreField(sport)])
          /\ IsStr(attrs[AwayScoreField(sport)])
          /\ IsNumber(attrs[HomeScoreField(sport)].v, h)
          /\ IsNumber(attrs[AwayScoreField(sport)].v, a) )
        => /\ h > a => last.res = HOME
           /\ ~(h > a) => last.res = AWAY

\* C1 witness: winner has been read on a tied game, and answered AWAY.
C1_Witness ==
    /\ pc = "ready"
    /\ last.acc = "winner"
    /\ IsStr(attrs[HomeScoreField(sport)])
    /\ attrs[HomeScoreField(sport)] = attrs[AwayScoreField(sport)]
    /\ IsIntegerText(attrs[HomeScoreField(sport)].v)
    /\ last.res = AWAY

\* C2: when both raw score attributes are None, dataframe returns None and
\* evaluates no other accessor.
C2_DataframeNoneWhenBothScoresNone ==
    ( /\ pc = "ready"
      /\ last.acc = "dataframe"
      /\ IsNone(attrs[HomeScoreField(sport)])
      /\ IsNone(attrs[AwayScoreField(sport)]) )
    => /\ IsNone(last.res)
       /\ last.read = <<>>

\* C2 witness: dataframe has been read on a Boxscore whose page was fetched
\* and parsed but shows neither score.
C2_Witness ==
    /\ pc = "ready"
    /\ last.acc = "dataframe"
    /\ net.ok
    /\ IsNone(attrs[HomeScoreField(sport)])
    /\ IsNone(attrs[AwayScoreField(sport)])
    /\ \E f \in Fields(sport) \ {"uri"} : ~IsNone(attrs[f])

\* C3: when the page fetch fails, _retrieve_html_page returns None, the
\* constructor completes without raising, every raw attribute other than
\* _uri is still None, and dataframe is None.
C3_FailedFetchLeavesEmptyBoxscore ==
    (pc # "created" /\ ~net.ok)
    => /\ IsNone(boxscore)
       /\ pc = "ready"
       /\ IsNone(raised)
       /\ \A f \in Fields(sport) \ {"uri"} : IsNone(attrs[f])
       /\ last.acc = "dataframe" => IsNone(last.res)

\* C3 witness: the fetch failed, the constructor has run and dataframe has
\* been read.
C3_Witness ==
    /\ pc = "ready"
    /\ ~net.ok
    /\ last.acc = "dataframe"

\* C5: on a Boxscore whose page was unavailable, every typed accessor
\* returns its silent default (empty string or zero) instead of raising.
C5_AccessorsDefaultWhenPageUnavailable ==
    ( /\ pc = "ready"
      /\ ~net.ok
      /\ last.acc \in Accessors(sport) )
    => /\ ~IsExc(last.res)
       /\ last.res.t \in {"str", "int", "float"}
       /\ last.res.t = "str" => last.res.v = <<>>
       /\ last.res.t \in {"int", "float"} => last.res.v = 0

\* C7: when the raw attributes of a format hold one well-formed string of
\* that format ('Rush-Yds-TDs', 'Cmp-Att-Yd-TD-INT', 'Fumbles-Lost',
\* 'Penalties-Yards'), each accessor returns the integer at its fixed
\* position of the string.
C7_AccessorsReturnFixedPositions ==
    ( /\ CompositeRead
      /\ \A g \in GroupOf(last.acc) :
            IsStr(attrs[g]) /\ attrs[g] = attrs[last.acc]
      /\ WellFormed(attrs[last.acc].v, FormatParts(last.acc)) )
    => \E n \in 0..MaxValue :
          /\ IsNumber(PartOf(attrs[last.acc].v, FormatPosition(last.acc) + 1),
                      n)
          /\ last.res.t = "int"
          /\ last.res.v = n

\* C7 witness: interceptions has been read from a well-formed pass string
\* and returned its fifth number.
C7_Witness ==
    /\ CompositeRead
    /\ last.acc = "away_interceptions"
    /\ IsStr(attrs["away_interceptions"])
    /\ WellFormed(attrs["away_interceptions"].v, 5)
    /\ \A g \in GroupOf(last.acc) : attrs[g] = attrs["away_interceptions"]
    /\ last.res.t = "int"
    /\ IsNumber(PartOf(attrs["away_interceptions"].v, 5), last.res.v)

\* The value reading position pos (from 0) of the dash-separated text t
\* gives when nothing is caught: the integer there, IndexError when t has
\* no such part, ValueError when the part is no integer.
ReadingOf(t, pos) ==
    IF pos >= PartCount(t) THEN Raise("IndexError")
    ELSE IF \E n \in 0..MaxValue : IsNumber(PartOf(t, pos + 1), n)
         THEN PyInt(CHOOSE n \in 0..MaxValue : IsNumber(PartOf(t, pos + 1), n))
         ELSE Raise("ValueError")

SameValue(x, y) == x.t = y.t /\ x.v = y.v

\* C8: every composite accessor replaces each '--' of the raw string by
\* '-' before splitting on '-': what it returns for a raw string is what
\* reading the string with its double dashes collapsed returns; '5--3' is
\* split as '5-3', into '5' and '3'.
C8_DoubleDashReadAsSingleDash ==
    /\ CompParts(<<"5", "-", "-", "3">>) = << <<"5">>, <<"3">> >>
    /\ ( /\ CompositeRead
         /\ IsStr(attrs[CompSource(last.acc)]) )
       => SameValue(last.res,
                    ReadingOf(Normalised(attrs[CompSource(last.acc)].v),
                              CompPos(last.acc)))

\* C8 witness: an accessor has been read from a raw string holding '--'
\* and returned the number that follows the double dash.
C8_Witness ==
    /\ CompositeRead
    /\ last.acc = "away_rush_yards"
    /\ IsStr(attrs["away_rush_yards"])
    /\ \E i \in 1..(Len(attrs["away_rush_yards"].v) - 1) :
          /\ attrs["away_rush_yards"].v[i] = "-"
          /\ attrs["away_rush_yards"].v[i + 1] = "-"
          /\ i = Least(DashesOf(attrs["away_rush_yards"].v))
    /\ last.res.t = "int"

\* C9 (as claimed): a raw string with the wrong number of dash-separated
\* parts, fewer or more than the format expects, makes the accessor raise
\* a type-cast error.
C9_WrongPartCountRaisesTypeCastError ==
    ( /\ CompositeRead
      /\ IsStr(attrs[CompSource(last.acc)])
      /\ PartCount(Normalised(attrs[CompSource(last.acc)].v))
            # FormatParts(last.acc) )
    => /\ IsExc(last.res)
       /\ last.res.v \in {"ValueError", "TypeError"}

\* C9 (amended): the accessor raises exactly when the normalised string has
\* no part at the accessor's position (IndexError) or that part is not an
\* integer (ValueError), and the error is the outcome of the read (nothing
\* catches it); a string with parts beyond the accessor's position, more or
\* fewer than the format expects, is read without an error.
C9_RaisesOnlyWhenItsPartIsMissingOrNotInteger ==
    ( /\ CompositeRead
      /\ IsStr(attrs[CompSource(last.acc)]) )
    => /\ CompPos(last.acc)
            >= PartCount(Normalised(attrs[CompSource(last.acc)].v))
          => IsExc(last.res) /\ last.res.v = "IndexError"
       /\ ( /\ CompPos(last.acc)
                < PartCount(Normalised(attrs[CompSource(last.acc)].v))
            /\ ~IsIntegerText(PartOf(Normalised(attrs[CompSource(last.acc)].v),
                                     CompPos(last.acc) + 1)) )
          => IsExc(last.res) /\ last.res.v = "ValueError"
       /\ ( /\ CompPos(last.acc)
                < PartCount(Normalised(attrs[CompSource(last.acc)].v))
            /\ IsIntegerText(PartOf(Normalised(attrs[CompSource(last.acc)].v),
                                    CompPos(last.acc) + 1)) )
          => ~IsExc(last.res)

\* C9 witness: interceptions has been read from a pass string of fewer
\* than five parts and raised.
C9_Witness ==
    /\ CompositeRead
    /\ last.acc = "away_interceptions"
    /\ IsStr(attrs["away_interceptions"])
    /\ PartCount(Normalised(attrs["away_interceptions"].v)) < 5
    /\ IsExc(last.res)

(***************************************************************************)
(* The game-day finder when the index page cannot be fetched or holds no   *)
(* game.                                                                   *)
(***************************************************************************)
EmptyGames == [boxscores |-> PyList(<<>>)]

\* C4: when the fetch of the day's index page fails while a Boxscores
\* finder is constructed, the finder ends with games equal to
\* {'boxscores': []} and nothing is raised to the caller.
C4_FailedIndexFetchYieldsEmptyGames ==
    (fpc \in {"ready", "raised"} /\ ~fnet.ok)
        => /\ fpc = "ready"
           /\ fraised = None
           /\ self_boxscores = EmptyGames

\* The index page was fetched and none of its tables is a game table.
NoGameTable ==
    /\ fnet.ok
    /\ \A i \in 1..Len(fnet.tables) : fnet.tables[i].cls # "teams"

\* C6: a fetched index page without any game table leaves games equal to
\* {'boxscores': []}, and nothing is raised; in every state of a finder,
\* from the first assignment of __init__ on, games is a mapping whose only
\* key 'boxscores' holds a list, and that is what the games property
\* returns.
C6_NoGameTableGivesEmptyList ==
    /\ fpc \in {"created", "ready"}
          => /\ DOMAIN self_boxscores = {"boxscores"}
             /\ self_boxscores.boxscores.t = "list"
    /\ (fpc \in {"ready", "raised"} /\ NoGameTable)
          => /\ fpc = "ready"
             /\ self_boxscores = EmptyGames
    /\ (fpc = "ready" /\ fgames # Unset) => fgames = self_boxscores

\* A page holding only a table of another class was fetched and games
\* was read.
C6_Witness ==
    /\ fpc = "ready"
    /\ NoGameTable
    /\ Len(fnet.tables) = 2
    /\ fgames = EmptyGames

(***************************************************************************)
(* The mlb narrative parser on a doubleheader.                             *)
(***************************************************************************)
\* The spellings of the doubleheader notes.
DoubleheaderNotes ==
    {"First Game of Doubleheader", "first game of doubleheader",
     "Second Game of Doubleheader", "second game of doubleheader",
     "SECOND GAME OF DOUBLEHEADER"}

MentionsDoubleheader(text) ==
    \E i \in 1..Len(text) : text[i] \in DoubleheaderNotes

\* The text up to its first line break.
FirstLine(text) ==
    IF \A i \in 1..Len(text) : text[i] # "\n" THEN text
    ELSE SubSeq(text, 1,
                (CHOOSE i \in 1..Len(text) :
                    /\ text[i] = "\n"
                    /\ \A j \in 1..(i - 1) : text[j] # "\n") - 1)

\* C10: in the mlb parser, when the text of any matched element mentions
\* the first or second game of a doubleheader, in any letter case, the
\* date is the first line of the first matched element, unchanged,
\* whatever index is configured for the field.
C10_DoubleheaderDateIsFirstLine ==
    (/\ sport = "mlb"
     /\ npc = "parsed"
     /\ nfield = "date"
     /\ \E i \in 1..Len(nitems) : MentionsDoubleheader(nitems[i]))
        => nresult = PyStr(FirstLine(nitems[1]))

\* The note stands in the second element only, in capitals, the configured
\* index points at a later line, and the first element has two lines.
C10_Witness ==
    /\ sport = "mlb"
    /\ npc = "parsed"
    /\ nfield = "date"
    /\ nindex = 2
    /\ Len(nitems) = 2
    /\ ~MentionsDoubleheader(nitems[1])
    /\ nitems[2] = <<"Sunday, ", "SECOND GAME OF DOUBLEHEADER">>
    /\ FirstLine(nitems[1]) # nitems[1]
    /\ nresult = PyStr(FirstLine(nitems[1]))

(***************************************************************************)
(* The mlb narrative parser on the other fields of a doubleheader.         *)
(***************************************************************************)
\* The positions of the line breaks of a text, its number of lines and its
\* p-th line (from 1).
BreaksOf(text) == {i \in 1..Len(text) : text[i] = "\n"}
LineCount(text) == Cardinality(BreaksOf(text)) + 1
LineOf(text, p) ==
    SubSeq(text,
           IF p = 1 THEN 1 ELSE Nth(BreaksOf(text), p - 1) + 1,
           IF p = LineCount(text) THEN Len(text)
           ELSE Nth(BreaksOf(text), p) - 1)

\* The line carries the marker of the field, in any letter case.
HasMarker(line, f) ==
    IF f = "time_of_day"
    THEN \E i \in 1..(Len(line) - 1) :
            /\ line[i] \in {"Night", "night", "NIGHT", "Day", "day"}
            /\ line[i + 1] \in {" Game", " game", " GAME"}
    ELSE \E i \in 1..Len(line) :
            line[i] \in (CASE f = "time" -> {"Start Time: ", "start time: "}
                           [] f = "attendance" ->
                                {"Attendance: ", "attendance: "}
                           [] f = "venue" -> {"Venue: ", "venue: "}
                           [] f = "duration" ->
                                {"Game Duration: ", "game duration: "}
                           [] OTHER -> {})

\* The lines of the first matched element that carry the field's marker.
MarkedLines(text, f) ==
    {p \in 1..LineCount(text) : HasMarker(LineOf(text, p), f)}

\* A call of the mlb parser on a doubleheader for a field other than date
\* has returned.
DoubleheaderFieldParsed ==
    /\ sport = "mlb"
    /\ npc = "parsed"
    /\ nfield # "date"
    /\ \E i \in 1..Len(nitems) : MentionsDoubleheader(nitems[i])

\* C11: in the mlb parser on a detected doubleheader, every field other
\* than date is the first line (of the first matched element, the block
\* the parser splits) that carries the field's marker, and the empty
\* string when no line carries it; the configured index plays no part.
C11_DoubleheaderFieldsFoundByMarker ==
    DoubleheaderFieldParsed
        => IF MarkedLines(nitems[1], nfield) = {}
           THEN nresult = PyStr(<<>>)
           ELSE nresult =
                    PyStr(LineOf(nitems[1],
                                 Nth(MarkedLines(nitems[1], nfield), 1)))

\* Two lines carry the time-of-day marker, the note stands in a second
\* element and the configured index points past the block: the first of
\* the two lines is returned.
C11_Witness ==
    /\ DoubleheaderFieldParsed
    /\ nfield = "time_of_day"
    /\ nindex = 2
    /\ Len(nitems) = 2
    /\ MarkedLines(nitems[1], nfield) = {1, 2}
    /\ LineOf(nitems[1], 1) # LineOf(nitems[1], 2)
    /\ nresult = PyStr(LineOf(nitems[1], 1))

(***************************************************************************)
(* The ncaaf narrative parser.                                             *)
(***************************************************************************)
\* The spellings of the weekday names.
WeekdayNames ==
    {"Monday", "Tuesday", "Wednesday", "Thursday", "Friday", "Saturday",
     "Sunday", "MONDAY", "TUESDAY", "WEDNESDAY", "THURSDAY", "FRIDAY",
     "SATURDAY", "SUNDAY", "monday", "tuesday", "wednesday", "thursday",
     "friday", "saturday", "sunday"}

NamesWeekday(line) == \E i \in 1..Len(line) : line[i] \in WeekdayNames

\* The line carries the image-credit watermark, in any letter case.
HasWatermark(line) ==
    \E i \in 1..Len(line) :
        line[i] \in {"Sports Logos.net", "sports logos.net"}

\* A call of the ncaaf parser on a non-empty selection has returned.
NcaafParsed == sport = "ncaaf" /\ npc = "parsed" /\ Len(nitems) > 0

\* The line (from 1) the layout of the block selects for the configured
\* index: one further down when the first line names no weekday.
SelectedLine ==
    IF NamesWeekday(LineOf(nitems[1], 1)) THEN nindex + 1 ELSE nindex + 2

\* C12: the ncaaf parser reads the field at the configured index when the
\* first line of the block names a weekday, in any letter case, and one
\* line further down when it does not (a bowl or championship game): a
\* non-empty result is the text of that line, and that line is the result
\* whenever it exists, is not empty and carries no watermark.
C12_BowlLayoutShiftsIndexByOne ==
    NcaafParsed
        => /\ nresult.t = "str"
           /\ nresult.v # <<>>
                => /\ SelectedLine <= LineCount(nitems[1])
                   /\ nresult.v = LineOf(nitems[1], SelectedLine)
           /\ ( /\ SelectedLine <= LineCount(nitems[1])
                /\ LineOf(nitems[1], SelectedLine) # <<>>
                /\ ~HasWatermark(LineOf(nitems[1], SelectedLine)) )
                => nresult.v = LineOf(nitems[1], SelectedLine)

\* A bowl game: the title comes first, the configured index is 0 and the
\* second line is returned.
C12_Witness ==
    /\ NcaafParsed
    /\ nindex = 0
    /\ ~NamesWeekday(LineOf(nitems[1], 1))
    /\ LineCount(nitems[1]) = 2
    /\ NamesWeekday(LineOf(nitems[1], 2))
    /\ nresult = PyStr(LineOf(nitems[1], 2))

\* C13: in the standard and in the bowl layout, when the selected line is
\* empty or carries the watermark, in any letter case, the ncaaf parser
\* returns the empty string and not the text of the line.
C13_WatermarkOrEmptyLineGivesEmptyString ==
    ( /\ NcaafParsed
      /\ SelectedLine <= LineCount(nitems[1])
      /\ \/ LineOf(nitems[1], SelectedLine) = <<>>
         \/ HasWatermark(LineOf(nitems[1], SelectedLine)) )
        => nresult = PyStr(<<>>)

\* A bowl game whose selected line is the watermark.
C13_Witness ==
    /\ NcaafParsed
    /\ ~NamesWeekday(LineOf(nitems[1], 1))
    /\ SelectedLine = 2
    /\ LineCount(nitems[1]) = 2
    /\ HasWatermark(LineOf(nitems[1], 2))
    /\ nresult = PyStr(<<>>)

(***************************************************************************)
(* The summaries of the ncaaf game-day finder.                             *)
(***************************************************************************)
\* The offsets of the school path in the markup of a name tag.
SchoolPathsOf(tag) ==
    {i \in 1..(Len(tag.v[2]) - 4) :
        /\ tag.v[2][i] = "cfb"
        /\ tag.v[2][i + 1] = "/"
        /\ tag.v[2][i + 2] = "schools"
        /\ tag.v[2][i + 3] = "/"}
HasSchoolPath(tag) == SchoolPathsOf(tag) # {}

\* The code segment that follows '/schools/' in a tag that has the path.
SchoolCode(tag) ==
    IF tag.v[2][Nth(SchoolPathsOf(tag), 1) + 4] = "/" THEN <<>>
    ELSE <<tag.v[2][Nth(SchoolPathsOf(tag), 1) + 4]>>

\* A constructed finder with i among its summaries.
Summaries == self_boxscores.boxscores.v
GamesFound(sp) == sport = sp /\ fpc = "ready"

\* The name tag the finder takes for a side of the i-th game table.
TeamTag(i, side) ==
    IF side = "away"
    THEN TdAnchors(TeamsTables(fnet.tables)[i].cells)[1]
    ELSE TdAnchors(TeamsTables(fnet.tables)[i].cells)[
             Len(TdAnchors(TeamsTables(fnet.tables)[i].cells))]

AbbrOf(i, side) ==
    IF side = "away" THEN Summaries[i].away_abbr ELSE Summaries[i].home_abbr

\* C14: in the ncaaf finder a team name tag without a school-path link
\* makes the team non-Division-I with its display name as abbreviation;
\* a tag with a school-path link and a non-empty code makes it Division-I
\* with the code that follows '/schools/' as abbreviation.
C14_SchoolPathDecidesAbbreviationAndDivision ==
    GamesFound("ncaaf")
        => \A i \in 1..Len(Summaries) : \A side \in {"away", "home"} :
              /\ ~HasSchoolPath(TeamTag(i, side))
                    => /\ GetName("ncaaf", TeamTag(i, side)).non_di
                       /\ GetName("ncaaf", TeamTag(i, side)).abbr
                              = PyStr(TeamTag(i, side).v[1])
                       /\ AbbrOf(i, side) = PyStr(TeamTag(i, side).v[1])
                       /\ Summaries[i].non_di = PyBool(TRUE)
              /\ ( /\ HasSchoolPath(TeamTag(i, side))
                   /\ SchoolCode(TeamTag(i, side)) # <<>> )
                    => /\ ~GetName("ncaaf", TeamTag(i, side)).non_di
                       /\ GetName("ncaaf", TeamTag(i, side)).abbr
                              = PyStr(SchoolCode(TeamTag(i, side)))
                       /\ AbbrOf(i, side)
                              = PyStr(SchoolCode(TeamTag(i, side)))

\* A game whose away tag links elsewhere and whose home tag links to its
\* school: the away abbreviation is the display name, the home one the
\* code.
C14_Witness ==
    /\ GamesFound("ncaaf")
    /\ Len(Summaries) = 1
    /\ ~HasSchoolPath(TeamTag(1, "away"))
    /\ HasSchoolPath(TeamTag(1, "home"))
    /\ Summaries[1].away_abbr = PyStr(<<"Away Team">>)
    /\ Summaries[1].home_abbr = PyStr(<<"HOM">>)

AttendanceDigits(raw) ==
    [k \in 1..Cardinality({i \in 1..Len(raw) :
                              raw[i] \notin {"Attendance: ", ","}}) |->
        raw[Nth({i \in 1..Len(raw) : raw[i] \notin {"Attendance: ", ","}},
                k)]]

\* The attendances the pages of the model print.
AttendanceValues == {12, 1234, 38000}

AttendanceRead ==
    /\ sport = "mlb"
    /\ pc = "ready"
    /\ last.acc = "attendance"
    /\ IsStr(attrs["attendance"])

\* C16: mlb attendance drops the 'Attendance: ' prefix and every comma of
\* the raw string and returns the integer that remains; when what remains
\* is not an integer, the empty string included, it returns 0 and does not
\* raise.
C16_AttendanceIsIntegerOrZero ==
    AttendanceRead
        => /\ last.res.t = "int"
           /\ IF /\ Len(AttendanceDigits(attrs["attendance"].v)) > 0
                 /\ \A k \in 1..Len(AttendanceDigits(attrs["attendance"].v)) :
                       AttendanceDigits(attrs["attendance"].v)[k] \in Digits
              THEN \E n \in AttendanceValues :
                      /\ IsNumber(AttendanceDigits(attrs["attendance"].v), n)
                      /\ last.res.v = n
              ELSE last.res.v = 0

\* The attendance line holds a word after the prefix and 0 was returned.
C16_Witness ==
    /\ AttendanceRead
    /\ attrs["attendance"].v = <<"Attendance: ", "unknown">>
    /\ last.res = PyInt(0)

(***************************************************************************)
(* The names and abbreviations of the winner and the loser.                *)
(***************************************************************************)
\* One of the four properties has been read on a game with two name tags
\* and two integer scores.
WinnerLoserRead ==
    /\ pc = "ready"
    /\ last.acc \in {"winning_name", "winning_abbr", "losing_name",
                     "losing_abbr"}
    /\ attrs["home_name"].t = "tag"
    /\ attrs["away_name"].t = "tag"
    /\ IsStr(attrs[HomeScoreField(sport)])
    /\ IsStr(attrs[AwayScoreField(sport)])
    /\ IsIntegerText(attrs[HomeScoreField(sport)].v)
    /\ IsIntegerText(attrs[AwayScoreField(sport)].v)

\* The home score is the greater one.
HomeAhead ==
    \E h, a \in 0..MaxValue :
        /\ IsNumber(attrs[HomeScoreField(sport)].v, h)
        /\ IsNumber(attrs[AwayScoreField(sport)].v, a)
        /\ h > a

\* The tag the property is about: the home tag for the winner of a game
\* the home team won and for the loser of any other game.
ChosenTag ==
    IF (last.acc \in {"winning_name", "winning_abbr"}) <=> HomeAhead
    THEN attrs["home_name"]
    ELSE attrs["away_name"]

\* The markup of the tag holds 'cfb/schools'.
MentionsSchools(tag) ==
    \E i \in 1..(Len(tag.v[2]) - 2) :
        /\ tag.v[2][i] = "cfb"
        /\ tag.v[2][i + 1] = "/"
        /\ tag.v[2][i + 2] = "schools"

\* C17: when the home team won, winning_name and winning_abbr come from
\* the home name tag and losing_name and losing_abbr from the away name
\* tag; otherwise the other way round.  A name is the display text of the
\* tag; an abbreviation is the code parsed from the tag, except that in
\* ncaaf it is the display text when the tag lacks 'cfb/schools'.
C17_WinnerAndLoserTakenFromTheirTags ==
    WinnerLoserRead
        => IF last.acc \in {"winning_name", "losing_name"}
           THEN last.res = PyStr(ChosenTag.v[1])
           ELSE IF sport = "ncaaf" /\ ~MentionsSchools(ChosenTag)
           THEN last.res = PyStr(ChosenTag.v[1])
           ELSE last.res = UtilsParseAbbreviation(ChosenTag)

\* The away team won an ncaaf game; its tag links to its school, the home
\* tag has no link: losing_abbr was read and is the home display text.
C17_Witness ==
    /\ WinnerLoserRead
    /\ sport = "ncaaf"
    /\ ~HomeAhead
    /\ attrs[HomeScoreField(sport)] # attrs[AwayScoreField(sport)]
    /\ MentionsSchools(attrs["away_name"])
    /\ ~MentionsSchools(attrs["home_name"])
    /\ last.acc = "losing_abbr"
    /\ last.res = PyStr(<<"Home Team">>)

(***************************************************************************)
(* The anchors the finder reads in a game table.                           *)
(***************************************************************************)
\* The cells of the i-th game table, and those that hold an anchor.
CellsOf(i) == TeamsTables(fnet.tables)[i].cells
AnchorCells(i) == {k \in 1..Len(CellsOf(i)) : Len(CellsOf(i)[k].anchors) > 0}

\* The first and the last anchor inside a cell of the i-th game table.
FirstAnchor(i) == CellsOf(i)[Nth(AnchorCells(i), 1)].anchors[1]
LastAnchor(i) ==
    CellsOf(i)[Nth(AnchorCells(i), Cardinality(AnchorCells(i)))].anchors[
        Len(CellsOf(i)[Nth(AnchorCells(i),
                           Cardinality(AnchorCells(i)))].anchors)]

\* The cells of class 'right gamelink' of the i-th game table that hold an
\* anchor.
GameLinkCells(i) ==
    {k \in AnchorCells(i) : CellsOf(i)[k].cls = "right gamelink"}

\* The identifier in the link of a boxscore anchor: what stands between
\* the boxscores path and the page suffix.
IdStart(markup) ==
    CHOOSE k \in 3..Len(markup) :
        /\ markup[k - 1] = "/"
        /\ markup[k - 2] \in {"boxes", "boxscores"}
IdEnd(markup) ==
    CHOOSE k \in 1..(Len(markup) - 1) :
        markup[k + 1] \in {".shtml", ".html"}
IdentifierOf(tag) == SubSeq(tag.v[2], IdStart(tag.v[2]), IdEnd(tag.v[2]))

\* C18: for every game table with at least one anchor, the away team of
\* its summary is the first anchor inside a cell of the table and the home
\* team the last one, so that a table with one anchor gives the same team
\* twice; the boxscore identifier comes from the anchor in the cell of
\* class 'right gamelink' only, and is empty when that cell holds none.
C18_AwayFirstHomeLastIdFromGamelink ==
    fpc = "ready"
        => \A i \in 1..Len(Summaries) :
              /\ Summaries[i].away_name = PyStr(FirstAnchor(i).v[1])
              /\ Summaries[i].away_abbr = GetName(sport, FirstAnchor(i)).abbr
              /\ Summaries[i].home_name = PyStr(LastAnchor(i).v[1])
              /\ Summaries[i].home_abbr = GetName(sport, LastAnchor(i)).abbr
              /\ Cardinality(AnchorCells(i)) = 1
                    => /\ Summaries[i].away_name = Summaries[i].home_name
                       /\ Summaries[i].away_abbr = Summaries[i].home_abbr
              /\ IF GameLinkCells(i) = {}
                 THEN Summaries[i].boxscore = PyStr(<<>>)
                 ELSE Summaries[i].boxscore =
                          PyStr(IdentifierOf(
                              CellsOf(i)[Nth(GameLinkCells(i), 1)].anchors[1]))

\* A page with an ordinary game (away, boxscore link, home) and a game
\* whose boxscore link stands outside the gamelink cell.
C18_Witness ==
    /\ fpc = "ready"
    /\ sport = "mlb"
    /\ Len(Summaries) = 2
    /\ Cardinality(AnchorCells(1)) = 3
    /\ GameLinkCells(1) # {}
    /\ Summaries[1].away_name = PyStr(<<"Away Team">>)
    /\ Summaries[1].home_name = PyStr(<<"Home Team">>)
    /\ Summaries[1].boxscore = PyStr(<<"SLN", "/", "SLN201807280">>)
    /\ Cardinality(AnchorCells(2)) = 3
    /\ GameLinkCells(2) = {}
    /\ Summaries[2].boxscore = PyStr(<<>>)

(***************************************************************************)
(* The tabular export.                                                     *)
(***************************************************************************)
\* dataframe has been read on a game with a final score and has returned.
ExportReturned ==
    /\ pc = "ready"
    /\ last.acc = "dataframe"
    /\ ~( /\ IsNone(attrs[AwayScoreField(sport)])
          /\ IsNone(attrs[HomeScoreField(sport)]) )
    /\ ~IsExc(last.res)

\* C19: the export of a played game is one record, flat (every column
\* holds one string or number), and the only label of its index is the
\* uri string the Boxscore was constructed with.
C19_ExportIsOneRecordIndexedByUri ==
    ExportReturned
        => /\ last.res.t = "frame"
           /\ Len(last.res.v.rows) = 1
           /\ \A k \in DOMAIN last.res.v.rows[1] :
                 last.res.v.rows[1][k].t \in {"str", "int", "float"}
           /\ Len(last.res.v.index) = 1
           /\ IsStr(last.res.v.index[1])
           /\ last.res.v.index[1] = attrs["uri"]
           /\ attrs["uri"] \in Uris(sport)

\* The export of a Boxscore constructed with the second uri of the model.
C19_Witness ==
    /\ ExportReturned
    /\ attrs["uri"] # DefaultUri(sport)
    /\ last.res.v.index = <<attrs["uri"]>>
    /\ Len(last.res.v.rows) = 1

(***************************************************************************)
(* The index of the generic extraction.                                    *)
(***************************************************************************)
\* C20: a field parsed through the generic extraction is looked up with
\* its entry of BOXSCORE_ELEMENT_INDEX when it has one and with 0 when it
\* has none: the attribute becomes the text of the element at that index,
\* or None when fewer elements are selected.  The index is always
\* defined: the pass never raises.
C20_GenericFieldsUseTheirIndexOrZero ==
    gpc = "parsed"
        => /\ ~IsExc(gresult)
           /\ gfield \in DOMAIN gtable
                 => gresult = IF gtable[gfield] < Len(gcells)
                              THEN PyStr(gcells[gtable[gfield] + 1])
                              ELSE None
           /\ gfield \notin DOMAIN gtable
                 => gresult = IF Len(gcells) > 0 THEN PyStr(gcells[1])
                              ELSE None

\* The table gives the field the index 2 and the third of four selected
\* elements is taken.
C20_Witness ==
    /\ gpc = "parsed"
    /\ gfield \in DOMAIN gtable
    /\ gtable[gfield] = 2
    /\ Len(gcells) = 4
    /\ gresult = PyStr(gcells[3])

(***************************************************************************)
(* A narrative field missing from a fetched mlb page.                      *)
(***************************************************************************)
\* The page has no narrative element at all, or its block is no
\* doubleheader and has no line at the field's fixed index.
NarrativeFieldAbsent(items, f) ==
    \/ items = <<>>
    \/ /\ items # <<>>
       /\ \A i \in 1..Len(items) : ~MentionsDoubleheader(items[i])
       /\ LineCount(items[1]) <= ElementIndex("mlb")[f]

\* C21: in mlb, when the page is fetched but a narrative field is absent
\* from it, the field is set to the empty string and the construction of
\* the Boxscore does not raise.
C21_AbsentNarrativeFieldIsEmptyString ==
    \A f \in NarrativeFields("mlb") :
        ( /\ sport = "mlb"
          /\ pc \in {"ready", "raised"}
          /\ net.ok
          /\ NarrativeFieldAbsent(net.page.narr, f) )
        => /\ raised = None
           /\ attrs[f] = PyStr(<<>>)

(***************************************************************************)
(* Reading properties of a constructed Boxscore.                           *)
(***************************************************************************)
\* C22: reading a typed accessor or dataframe changes no attribute of the
\* instance, and reading the accessor that was read last again gives the
\* same outcome: the accessors keep nothing from one read to the next.
C22_ReadsChangeNothingAndRepeat ==
    [][ pc = "ready"
            => /\ attrs' = attrs
               /\ (last'.acc = last.acc /\ last.acc # "")
                      => last'.res = last.res ]_vars

\* The winning name has been read on a fetched page, and the attributes
\* __init__ reserved for the winner and the team names are still None.
C22_Witness ==
    /\ pc = "ready"
    /\ net.ok
    /\ last.acc = "winning_name"
    /\ last.res = PyStr(<<"Home Team">>)
    /\ \A f \in {"winner", "winning_name", "winning_abbr", "losing_name",
                 "losing_abbr"} : attrs[f] = None
    /\ attrs["home_name"] = net.page.home_name

(***************************************************************************)
(* Two objects in one process.                                             *)
(***************************************************************************)
\* What an object holds when it is alone in the process: the attributes
\* of __init__ before the parsing call, and after it what the parsing of
\* its own page made of them.
AloneFields(sp, x) ==
    IF x.pc = "created"
    THEN NewInstance(sp, x).fields
    ELSE Constructed(sp, NewInstance(sp, x)).fields

\* C23: whatever constructions and reads have taken place on two objects
\* (Boxscore or Boxscores, in any order), each object holds exactly the raw
\* fields or games list that an object constructed alone from its own
\* argument and its own fetched page holds.
C23_InstancesAreIndependent ==
    \A o \in DOMAIN objs :
        objs[o].fields = AloneFields(sport, objs[o])

\* Two finders (or two Boxscores) built from different pages both stand
\* constructed, hold different fields, and the first was read after the
\* second was built.
C23_Witness ==
    /\ objs # <<>>
    /\ objs[1].kind = objs[2].kind
    /\ objs[1].pc = "ready"
    /\ objs[2].pc = "ready"
    /\ objs[1].net # objs[2].net
    /\ objs[1].fields # objs[2].fields
    /\ plast # Unset
    /\ plast.obj = 1
    /\ objs[1].fields # NewInstance(sport, objs[1]).fields
    /\ objs[2].fields # NewInstance(sport, objs[2]).fields

(***************************************************************************)
(* The raw attribute behind each ncaaf composite accessor.                 *)
(***************************************************************************)
\* C24: every ncaaf composite accessor computes its value from the raw
\* attribute that bears its own name, at the position its format gives it
\* (home and away alike): home_interceptions is position 4 of
\* _home_interceptions, away_fumbles_lost is position 1 of
\* _away_fumbles_lost.
C24_CompositeAccessorsReadTheirOwnField ==
    (CompositeRead /\ IsStr(attrs[last.acc]))
        => SameValue(last.res,
                     ReadingOf(Normalised(attrs[last.acc].v),
                               FormatPosition(last.acc)))

(***************************************************************************)
(* The export when a raw score is missing.                                 *)
(***************************************************************************)
\* The number of raw score attributes that are None.
MissingScores ==
    Cardinality({f \in {AwayScoreField(sport), HomeScoreField(sport)} :
                    attrs[f] = None})

\* C25: dataframe returns None if and only if both raw score attributes
\* are None; when exactly one of them is None it returns neither None nor
\* a record: it evaluates the accessors and the unset score makes it
\* raise.
C25_ExportNoneOnlyWhenBothScoresNone ==
    (pc = "ready" /\ last.acc = "dataframe")
        => /\ last.res = None <=> MissingScores = 2
           /\ MissingScores = 1 => /\ IsExc(last.res)
                                   /\ last.read # <<>>

\* The page shows the home score only; the export has been read and
\* raised the TypeError of int(None).
C25_Witness ==
    /\ pc = "ready"
    /\ net.ok
    /\ last.acc = "dataframe"
    /\ attrs[AwayScoreField(sport)] = None
    /\ IsStr(attrs[HomeScoreField(sport)])
    /\ last.res = Raise("TypeError")
    /\ last.read # <<>>

(***************************************************************************)
(* The attributes the constructor leaves alone.                            *)
(***************************************************************************)
DerivedAttributes ==
    {"winner", "winning_name", "winning_abbr", "losing_name", "losing_abbr"}

\* C26: after the constructor has run, whether the fetch succeeded or
\* not, _uri is the constructor's argument, _winner, _winning_name,
\* _winning_abbr, _losing_name and _losing_abbr are still None, and the
\* instance has exactly the attributes __init__ created.
C26_ParsingLeavesUriAndDerivedAttributes ==
    pc \in {"ready", "raised"}
        => /\ attrs["uri"] = uri
           /\ \A f \in DerivedAttributes : attrs[f] = None
           /\ DOMAIN attrs = Fields(sport)

\* A Boxscore built with the second uri from a fetched page: its date and
\* names are parsed, its uri and derived attributes are untouched.
C26_Witness ==
    /\ pc = "ready"
    /\ net.ok
    /\ uri # DefaultUri(sport)
    /\ attrs["uri"] = uri
    /\ IsStr(attrs["date"])
    /\ attrs["home_name"] = net.page.home_name
    /\ \A f \in DerivedAttributes : attrs[f] = None

(***************************************************************************)
(* The accessors of an mlb doubleheader whose block omits a field.         *)
(***************************************************************************)
\* The fetched mlb page is a doubleheader and no line of its block carries
\* the marker of field f.
DoubleheaderOmits(f) ==
    /\ sport = "mlb"
    /\ pc # "created"
    /\ net.ok
    /\ net.page.narr # <<>>
    /\ \E i \in 1..Len(net.page.narr) : MentionsDoubleheader(net.page.narr[i])
    /\ MarkedLines(net.page.narr[1], f) = {}

\* What an accessor falls back to.
FallbackOf(f) ==
    CASE f = "attendance" -> PyInt(0)
      [] f = "time_of_day" -> DAY
      [] OTHER -> PyStr(<<>>)

\* The text says 'night' in some letter case.
SaysNight(text) ==
    \E i \in 1..Len(text) : text[i] \in {"Night", "night", "NIGHT"}

\* C27: for an mlb doubleheader whose block omits a field, the
\* construction does not raise and the raw value is the empty string;
\* time, venue and duration then return '', attendance returns 0 and
\* time_of_day returns DAY. time_of_day is NIGHT only when its raw line
\* says 'night', in any letter case.
C27_OmittedDoubleheaderFieldsDegrade ==
    /\ \A f \in {"time", "venue", "duration", "attendance", "time_of_day"} :
          DoubleheaderOmits(f)
              => /\ pc = "ready"
                 /\ attrs[f] = PyStr(<<>>)
                 /\ last.acc = f => last.res = FallbackOf(f)
    /\ ( /\ sport = "mlb"
         /\ pc = "ready"
         /\ last.acc = "time_of_day"
         /\ IsStr(attrs["time_of_day"]) )
       => /\ last.res \in {DAY, NIGHT}
          /\ last.res = NIGHT <=> SaysNight(attrs["time_of_day"].v)

\* A doubleheader block with the note and the date only: time_of_day has
\* been read and answered DAY from the empty raw value.
C27_Witness ==
    /\ DoubleheaderOmits("time_of_day")
    /\ DoubleheaderOmits("attendance")
    /\ DoubleheaderOmits("time")
    /\ pc = "ready"
    /\ attrs["time_of_day"] = PyStr(<<>>)
    /\ last.acc = "time_of_day"
    /\ last.res = DAY

(***************************************************************************)
(* The ncaaf narrative parser on blocks of any length.                     *)
(***************************************************************************)
\* C28: when the selector matches at least one element, the ncaaf parser
\* returns, for every field, configured index and number of lines, either
\* a line of the block or the empty string, and never raises; it returns
\* the empty string whenever the index, shifted by one in the bowl layout,
\* is at or beyond the number of lines.
C28_NcaafParserIsTotal ==
    NcaafParsed
        => /\ nresult.t = "str"
           /\ \/ nresult.v = <<>>
              \/ \E p \in 1..LineCount(nitems[1]) :
                    nresult.v = LineOf(nitems[1], p)
           /\ SelectedLine > LineCount(nitems[1]) => nresult.v = <<>>

\* A bowl block of two lines read at index 1: the shifted index equals
\* the number of lines and the result is the empty string.
C28_Witness ==
    /\ NcaafParsed
    /\ nindex = 1
    /\ ~NamesWeekday(LineOf(nitems[1], 1))
    /\ LineCount(nitems[1]) = 2
    /\ LineOf(nitems[1], 2) # <<>>
    /\ SelectedLine = 3
    /\ nresult = PyStr(<<>>)

(***************************************************************************)
(* The list of summaries of a finder.                                      *)
(***************************************************************************)
\* The positions of the game tables among the tables of the index page.
GameTables == {k \in 1..Len(fnet.tables) : fnet.tables[k].cls = "teams"}

SummaryKeys(sp) ==
    {"boxscore", "away_name", "away_abbr", "home_name", "home_abbr"}
    \cup (IF sp = "ncaaf" THEN {"non_di"} ELSE {})

\* C29: a constructed finder holds exactly one summary per game table of
\* the index page, in page order; each summary has exactly the keys
\* boxscore, away_name, away_abbr, home_name and home_abbr (and non_di in
\* ncaaf); the games mapping is replaced as a whole, so that until the
\* constructor completes it is the empty one of __init__ and never a
\* partly filled one.
C29_OneSummaryPerGameTableInPageOrder ==
    /\ fpc = "ready"
          => /\ Len(Summaries) = Cardinality(GameTables)
             /\ \A i \in 1..Len(Summaries) :
                   /\ DOMAIN Summaries[i] = SummaryKeys(sport)
                   /\ Summaries[i] =
                          GameInfo(sport,
                                   fnet.tables[Nth(GameTables, i)].cells)
    /\ fpc \in {"created", "raised"} => self_boxscores = EmptyGames
    /\ fgames # Unset
          => /\ fpc = "ready"
             /\ Len(fgames.boxscores.v) = Cardinality(GameTables)

\* A page with two different game tables: two different summaries, the
\* first from the first table, and games has been read.
C29_Witness ==
    /\ fpc = "ready"
    /\ Cardinality(GameTables) = 2
    /\ Len(Summaries) = 2
    /\ Summaries[1] # Summaries[2]
    /\ Summaries[1].boxscore # Summaries[2].boxscore
    /\ Summaries[1] = GameInfo(sport, fnet.tables[1].cells)
    /\ fgames = self_boxscores

(***************************************************************************)
(* The columns of the export.                                              *)
(***************************************************************************)
\* dataframe has returned a frame; its one record.
FrameReturned ==
    /\ pc = "ready"
    /\ last.acc = "dataframe"
    /\ last.res.t = "frame"
Record == last.res.v.rows[1]

\* C30: in mlb and in ncaaf, the columns of the record of dataframe are
\* the properties of the Boxscore other than dataframe itself, no more and
\* no fewer, and each column holds the value of the property of the same
\* name.
C30_ColumnsAreTheAccessors ==
    FrameReturned
        => /\ DOMAIN Record = Properties(sport) \ {"dataframe"}
           /\ \A k \in DOMAIN Record : Record[k] = Accessor(sport, attrs, k)

\* The export of a game won by the home team: the winner's column and
\* the loser's column hold different names, each its own.
C30_Witness ==
    /\ FrameReturned
    /\ Record["winner"] = HOME
    /\ Record["winning_name"] = PyStr(<<"Home Team">>)
    /\ Record["losing_name"] = PyStr(<<"Away Team">>)
    /\ Cardinality(DOMAIN Record) = Cardinality(Properties(sport)) - 1

====
